---- MODULE Spec2Model ----
(***************************************************************************)
(* Myula: a Lua-subset compiler and register virtual machine.              *)
(*                                                                         *)
(* The model follows the pipeline of src/main.rs: an IR module (the output *)
(* of the IR generator for a Lua source text) is scanned for lifetimes and *)
(* given physical registers (Scanner), lowered to bytecode                 *)
(* (BytecodeEmitter), loaded by VirtualMachine::init and executed by       *)
(* VirtualMachine::run, one action per instruction handler, with the       *)
(* mark-and-sweep collector as a step of the run loop.                     *)
(*                                                                         *)
(* The inputs are the IR modules of a corpus of Lua programs; each IR      *)
(* module below is the generator's output for the Lua text quoted with it. *)
(***************************************************************************)
EXTENDS Integers, Sequences, FiniteSets, TLC

(***************************************************************************)
(* IROperand (frontend/ir/mod.rs).  A string is a sequence of atoms; the   *)
(* atom BigAtom stands for a run of BigAtomBytes characters, every other   *)
(* atom for its own characters.                                            *)
(***************************************************************************)
Reg(id) == [kind |-> "Reg", id |-> id]
Slot(id) == [kind |-> "Slot", id |-> id]
UpVal(id) == [kind |-> "UpVal", id |-> id]
Proto(name) == [kind |-> "Proto", name |-> name]
ImmFloat(f) == [kind |-> "ImmFloat", f |-> f]
ImmBool(b) == [kind |-> "ImmBool", b |-> b]
ImmStr(s) == [kind |-> "ImmStr", s |-> s]
IRNil == [kind |-> "Nil"]
Unit == [kind |-> "Unit"]

(***************************************************************************)
(* IRInstruction and IRTerminator.                                         *)
(***************************************************************************)
IRLoadImm(dest, value) == [op |-> "LoadImm", dest |-> dest, value |-> value]
IRBinary(dest, src1, src2, operator) ==
    [op |-> "Binary", dest |-> dest, src1 |-> src1, src2 |-> src2,
     operator |-> operator]
IRLoadLocal(dest, src) == [op |-> "LoadLocal", dest |-> dest, src |-> src]
IRStoreLocal(dest, dst, src) ==
    [op |-> "StoreLocal", dest |-> dest, dst |-> dst, src |-> src]
IRLoadGlobal(dest, name) == [op |-> "LoadGlobal", dest |-> dest, name |-> name]
IRStoreGlobal(dest, name, src) ==
    [op |-> "StoreGlobal", dest |-> dest, name |-> name, src |-> src]
IRLoadUpVal(dest, src) == [op |-> "LoadUpVal", dest |-> dest, src |-> src]
IRDrop(src) == [op |-> "Drop", src |-> src]
IRCall(dest, callee, args) ==
    [op |-> "Call", dest |-> dest, callee |-> callee, args |-> args]
IRNewTable(dest, size_array, size_hash) ==
    [op |-> "NewTable", dest |-> dest, size_array |-> size_array,
     size_hash |-> size_hash]
IRSetMember(dest, collection, member, value) ==
    [op |-> "SetMember", dest |-> dest, collection |-> collection,
     member |-> member, value |-> value]
IRFnProto(dest, func_proto) ==
    [op |-> "FnProto", dest |-> dest, func_proto |-> func_proto]

IRReturn(vals) == [term |-> "Return", vals |-> vals]
IRJump(target) == [term |-> "Jump", target |-> target]
IRBranch(cond, br_true, br_false) ==
    [term |-> "Branch", cond |-> cond, br_true |-> br_true,
     br_false |-> br_false]
FallThrough == [term |-> "FallThrough"]

IRBasicBlock(id, instructions, terminator) ==
    [id |-> id, instructions |-> instructions, terminator |-> terminator]

\* IRUpVal { slot, ty }: ty is LocalVar(slot of the parent) or UpVal(index
\* in the parent's upvalue list).
IRUpValLocalVar(slot, parent_slot) ==
    [slot |-> slot, ty |-> "LocalVar", idx |-> parent_slot]

\* IRFunction.  local_variables is the set of slot numbers (the names are not
\* used after generation); upvalues lists the descriptors in the order in
\* which VirtualMachine::init collects them.
IRFunction(name, basic_blocks, local_variables, upvalues, sub_functions) ==
    [name |-> name, basic_blocks |-> basic_blocks,
     local_variables |-> local_variables, upvalues |-> upvalues,
     sub_functions |-> sub_functions]

(***************************************************************************)
(* Scanner (backend/translator/scanner.rs): lifetimes of the slots and     *)
(* virtual registers of one function, then the strided linear scan.        *)
(* A lifetime map is a function from VarKind (Reg(id) or Slot(id)) to      *)
(* [start, end].                                                           *)
(***************************************************************************)
stride == 4

Min(a, b) == IF a < b THEN a ELSE b
Max(a, b) == IF a > b THEN a ELSE b

\* TLC defers the evaluation of operator arguments, so a loop whose
\* accumulator is passed on unevaluated nests as deep as the loop is long.
\* AndThen(v, Op) is Op(v) with v evaluated first.
AndThen(v, Op(_)) == CHOOSE out \in {Op(x) : x \in {v}} : TRUE

IsVar(operand) == operand.kind \in {"Reg", "Slot"}

record_def(lifetimes, var, instr_count) ==
    IF var \in DOMAIN lifetimes
    THEN [lifetimes EXCEPT ![var].start = Min(@, instr_count)]
    ELSE lifetimes @@ (var :> [start |-> instr_count, end |-> instr_count])

\* A record_use that leaves the end of the lifetime where it was.
record_use_KeepEnd(lifetimes, operand, instr_count) == lifetimes

record_use(lifetimes, operand, instr_count) ==
    IF IsVar(operand) /\ operand \in DOMAIN lifetimes
    THEN [lifetimes EXCEPT ![operand].end = Max(@, instr_count)]
    ELSE lifetimes

RECURSIVE record_uses(_, _, _)
record_uses(lifetimes, operands, instr_count) ==
    IF operands = <<>> THEN lifetimes
    ELSE record_uses(record_use(lifetimes, Head(operands), instr_count),
                     Tail(operands), instr_count)

\* The Call arm keeps a register argument, and the callee register, alive
\* one instruction past the call.
ExtendPastCall(lifetimes, operand, instr_count) ==
    IF operand.kind = "Reg" /\ operand \in DOMAIN lifetimes
    THEN [lifetimes EXCEPT ![operand].end = instr_count + 1]
    ELSE lifetimes

RECURSIVE ScanCallArgs(_, _, _)
ScanCallArgs(lifetimes, args, instr_count) ==
    IF args = <<>> THEN lifetimes
    ELSE ScanCallArgs(
             ExtendPastCall(record_use(lifetimes, Head(args), instr_count),
                            Head(args), instr_count),
             Tail(args), instr_count)

\* The operands an instruction uses, in the order process_instr records them
\* (Call is handled apart).
UsedOperands(instr) ==
    CASE instr.op = "LoadImm" -> <<>>
      [] instr.op = "LoadLocal" -> <<instr.src>>
      [] instr.op = "StoreLocal" -> <<instr.dst, instr.src>>
      [] instr.op = "Binary" -> <<instr.src1, instr.src2>>
      [] instr.op = "LoadGlobal" -> <<instr.name>>
      [] instr.op = "StoreGlobal" -> <<instr.name, instr.src>>
      [] instr.op = "Drop" -> <<instr.src>>
      [] instr.op = "NewTable" -> <<instr.size_array, instr.size_hash>>
      [] instr.op = "MemberOf" -> <<instr.collection, instr.member>>
      [] instr.op = "SetMember" ->
             <<instr.collection, instr.member, instr.value>>
      [] instr.op = "FnProto" -> <<instr.func_proto>>
      [] instr.op = "LoadUpVal" -> <<instr.src>>

\* The scanner's arm for LoadUpVal: a definition of dest like every other
\* load (the operand is an upvalue slot, which has no lifetime).
ScanLoadUpVal(lifetimes, instr, instr_count) ==
    record_uses(record_def(lifetimes, Reg(instr.dest), instr_count),
                UsedOperands(instr), instr_count)

process_instr(lifetimes, instr, instr_count) ==
    CASE instr.op = "Drop" ->
             record_use(lifetimes, instr.src, instr_count)
      [] instr.op = "Call" ->
             ExtendPastCall(
                 ScanCallArgs(
                     record_use(
                         record_def(lifetimes, Reg(instr.dest), instr_count),
                         instr.callee, instr_count),
                     instr.args, instr_count),
                 instr.callee, instr_count)
      [] instr.op = "LoadUpVal" ->
             ScanLoadUpVal(lifetimes, instr, instr_count)
      [] OTHER ->
             record_uses(record_def(lifetimes, Reg(instr.dest), instr_count),
                         UsedOperands(instr), instr_count)

process_terminator(lifetimes, terminator, instr_count) ==
    CASE terminator.term = "Return" ->
             record_uses(lifetimes, terminator.vals, instr_count)
      [] terminator.term = "Branch" ->
             record_use(lifetimes, terminator.cond, instr_count)
      [] OTHER -> lifetimes

\* The instructions in the order scan_lifetimes visits them: each block's
\* instructions, then its terminator.  instr_count is the position in this
\* list, counted from 1.
RECURSIVE ScanOrder(_)
ScanOrder(blocks) ==
    IF blocks = <<>> THEN <<>>
    ELSE Head(blocks).instructions \o <<Head(blocks).terminator>>
             \o ScanOrder(Tail(blocks))

\* The loop over items lo..hi, evaluated by halves.
RECURSIVE ScanBlocks(_, _, _, _)
ScanBlocks(lifetimes, items, lo, hi) ==
    IF lo > hi THEN lifetimes
    ELSE IF lo = hi
    THEN IF "term" \in DOMAIN items[lo]
         THEN process_terminator(lifetimes, items[lo], lo)
         ELSE process_instr(lifetimes, items[lo], lo)
    ELSE LET mid == (lo + hi) \div 2
         IN AndThen(ScanBlocks(lifetimes, items, lo, mid),
                    LAMBDA l : ScanBlocks(l, items, mid + 1, hi))

scan_lifetimes(func) ==
    AndThen(ScanOrder(func.basic_blocks),
            LAMBDA items :
                ScanBlocks([v \in {Slot(s) : s \in func.local_variables} |->
                               [start |-> 0, end |-> 0]],
                           items, 1, Len(items)))

\* temps.sort_by_key(start): the virtual registers by increasing start.  Every
\* register is defined by one instruction, so no two starts are equal.
SortByStart(lifetimes, regs) ==
    LET StartsBefore(q, r) ==
            \/ lifetimes[q].start < lifetimes[r].start
            \/ /\ lifetimes[q].start = lifetimes[r].start
               /\ q.id < r.id
    IN [i \in 1..Cardinality(regs) |->
           CHOOSE r \in regs :
               Cardinality({q \in regs : StartsBefore(q, r)}) = i - 1]

\* A turn of the loop that also evicts the entries whose lifetime ends at
\* `start`.
AllocateTemp_EvictAtEnd(lifetimes, key, st) ==
    LET start == lifetimes[key].start
        expired == SelectSeq(st.active,
                             LAMBDA e : lifetimes[e.key].end <= start)
        free == st.free_registers
                    \o [i \in 1..Len(expired) |-> expired[i].phys_idx]
        active == SelectSeq(st.active,
                            LAMBDA e : ~(lifetimes[e.key].end <= start))
        phys_idx == IF free # <<>> THEN free[Len(free)]
                    ELSE st.next_temp_idx
    IN [reg_map |-> st.reg_map @@ (key :> phys_idx),
        active |-> Append(active, [key |-> key, phys_idx |-> phys_idx]),
        free_registers |-> IF free # <<>>
                           THEN SubSeq(free, 1, Len(free) - 1) ELSE free,
        next_temp_idx |-> IF free # <<>> THEN st.next_temp_idx
                          ELSE st.next_temp_idx + stride,
        max_usage |-> Max(st.max_usage, phys_idx + stride)]

AllocateTemp_Dense(lifetimes, key, st) ==
    LET start == lifetimes[key].start
        expired == SelectSeq(st.active,
                             LAMBDA e : lifetimes[e.key].end < start)
        free == st.free_registers
                    \o [i \in 1..Len(expired) |-> expired[i].phys_idx]
        active == SelectSeq(st.active,
                            LAMBDA e : ~(lifetimes[e.key].end < start))
        phys_idx == IF free # <<>> THEN free[Len(free)]
                    ELSE st.next_temp_idx
    IN [reg_map |-> st.reg_map @@ (key :> phys_idx),
        active |-> Append(active, [key |-> key, phys_idx |-> phys_idx]),
        free_registers |-> IF free # <<>>
                           THEN SubSeq(free, 1, Len(free) - 1) ELSE free,
        next_temp_idx |-> IF free # <<>> THEN st.next_temp_idx
                          ELSE st.next_temp_idx + 1,
        max_usage |-> Max(st.max_usage, phys_idx + stride)]

\* One turn of the loop of allocate_registers.  st holds reg_map, active,
\* free_registers, next_temp_idx and max_usage.  active.retain: the entries
\* whose lifetime ended before `start` leave the active list, in order, and
\* their registers are pushed on the free list.
AllocateTemp(lifetimes, key, st) ==
    LET start == lifetimes[key].start
        expired == SelectSeq(st.active,
                             LAMBDA e : lifetimes[e.key].end < start)
        free == st.free_registers
                    \o [i \in 1..Len(expired) |-> expired[i].phys_idx]
        active == SelectSeq(st.active,
                            LAMBDA e : ~(lifetimes[e.key].end < start))
        \* free_registers.pop(): the register freed last, else a fresh one
        phys_idx == IF free # <<>> THEN free[Len(free)]
                    ELSE st.next_temp_idx
    IN [reg_map |-> st.reg_map @@ (key :> phys_idx),
        active |-> Append(active, [key |-> key, phys_idx |-> phys_idx]),
        free_registers |-> IF free # <<>>
                           THEN SubSeq(free, 1, Len(free) - 1) ELSE free,
        next_temp_idx |-> IF free # <<>> THEN st.next_temp_idx
                          ELSE st.next_temp_idx + stride,
        max_usage |-> Max(st.max_usage, phys_idx + stride)]

\* The loop over temps[lo..hi], evaluated by halves.
RECURSIVE AllocateTemps(_, _, _, _, _)
AllocateTemps(lifetimes, temps, st, lo, hi) ==
    IF lo > hi THEN st
    ELSE IF lo = hi THEN AllocateTemp(lifetimes, temps[lo], st)
    ELSE LET mid == (lo + hi) \div 2
         IN AndThen(AllocateTemps(lifetimes, temps, st, lo, mid),
                    LAMBDA s : AllocateTemps(lifetimes, temps, s,
                                             mid + 1, hi))

\* allocate_registers: slots keep their slot number, temporaries get strided
\* registers above them; the result carries reg_map and func_stack_info.
allocate_registers(func, lifetimes) ==
    LET slots == {v \in DOMAIN lifetimes : v.kind = "Slot"}
        regs == {v \in DOMAIN lifetimes : v.kind = "Reg"}
        num_slots == IF slots = {} THEN 0
                     ELSE CHOOSE m \in {v.id + 1 : v \in slots} :
                              \A v \in slots : v.id + 1 <= m
        st == AndThen(SortByStart(lifetimes, regs),
                  LAMBDA temps :
                      AllocateTemps(lifetimes, temps,
                          [reg_map |-> [v \in slots |-> v.id],
                           active |-> <<>>, free_registers |-> <<>>,
                           next_temp_idx |-> num_slots,
                           max_usage |-> num_slots],
                          1, Len(temps)))
    IN [reg_map |-> st.reg_map,
        func_stack_info |-> <<num_slots, st.max_usage + stride>>]

\* global_scan, for one function.
global_scan(func) ==
    AndThen(scan_lifetimes(func), LAMBDA l : allocate_registers(func, l))

(***************************************************************************)
(* LuaValue (common/object.rs).  Heap values carry the address of their    *)
(* object.                                                                 *)
(***************************************************************************)
Nil == [t |-> "Nil"]
Boolean(b) == [t |-> "Boolean", b |-> b]
Number(n) == [t |-> "Number", n |-> n]
TempString(s) == [t |-> "TempString", s |-> s]
String(ptr) == [t |-> "String", ptr |-> ptr]
Table(ptr) == [t |-> "Table", ptr |-> ptr]
Function(ptr) == [t |-> "Function", ptr |-> ptr]
CFunc(name) == [t |-> "CFunc", name |-> name]

(***************************************************************************)
(* BytecodeEmitter (backend/translator/emitter.rs).  The emitter state st  *)
(* holds bytecode, constants and var_literals; const_map is the position   *)
(* of a value in constants.                                                *)
(***************************************************************************)
\* reg_map.get(..).unwrap(): the variable must have a register.
get_phys_reg(reg_map, var) == reg_map[var]

get_reg_index(reg_map, operand) ==
    IF IsVar(operand) THEN get_phys_reg(reg_map, operand) ELSE 0

ConstIdx(constants, val) ==
    IF \E i \in 1..Len(constants) : constants[i] = val
    THEN (CHOOSE i \in 1..Len(constants) : constants[i] = val) - 1
    ELSE Len(constants)

\* An add_constant that does not look the value up.
add_constant_Always(st, val) == [st EXCEPT !.constants = Append(@, val)]

add_constant(st, val) ==
    IF \E i \in 1..Len(st.constants) : st.constants[i] = val
    THEN st
    ELSE [st EXCEPT !.constants = Append(@, val)]

PushOps(st, ops) == [st EXCEPT !.bytecode = @ \o ops]

\* The constant a name operand of LoadGlobal / StoreGlobal denotes.
get_literal_as_const(st, reg_id) ==
    IF reg_id \in DOMAIN st.var_literals
    THEN LET lit == st.var_literals[reg_id]
         IN CASE lit.kind = "ImmStr" -> TempString(lit.s)
              [] lit.kind = "ImmFloat" -> Number(lit.f)
              [] OTHER -> Nil
    ELSE Nil

NameConst(st, name) ==
    CASE name.kind = "ImmStr" -> TempString(name.s)
      [] name.kind = "Reg" -> get_literal_as_const(st, name.id)
      [] OTHER -> Nil

BinaryOpCode(operator) ==
    CASE operator = "Neq" -> "Ne"
      [] operator = "Leq" -> "Le"
      [] operator = "Geq" -> "Ge"
      [] OTHER -> operator

emit_instr(st, instr, reg_map) ==
    CASE instr.op = "LoadImm" ->
             LET lit == [st EXCEPT !.var_literals =
                             [r \in (DOMAIN @) \cup {instr.dest} |->
                                 IF r = instr.dest THEN instr.value ELSE @[r]]]
                 d == get_phys_reg(reg_map, Reg(instr.dest))
                 value == instr.value
             IN CASE value.kind = "ImmFloat" ->
                         PushOps(add_constant(lit, Number(value.f)),
                             <<[op |-> "LoadK", dest |-> d, const_idx |->
                                 ConstIdx(lit.constants, Number(value.f))]>>)
                  [] value.kind = "ImmBool" ->
                         PushOps(lit, <<[op |-> "LoadBool", dest |-> d,
                                         value |-> value.b]>>)
                  [] value.kind = "Nil" ->
                         PushOps(lit, <<[op |-> "LoadNil", dest |-> d]>>)
                  [] value.kind = "ImmStr" ->
                         PushOps(add_constant(lit, TempString(value.s)),
                             <<[op |-> "LoadK", dest |-> d, const_idx |->
                                 ConstIdx(lit.constants,
                                          TempString(value.s))]>>)
                  [] OTHER -> lit
      [] instr.op = "Binary" ->
             PushOps(st, <<[op |-> BinaryOpCode(instr.operator),
                            dest |-> get_phys_reg(reg_map, Reg(instr.dest)),
                            left |-> get_reg_index(reg_map, instr.src1),
                            right |-> get_reg_index(reg_map, instr.src2)]>>)
      [] instr.op = "MemberOf" ->
             PushOps(st, <<[op |-> "GetTable",
                            dest |-> get_phys_reg(reg_map, Reg(instr.dest)),
                            table |-> get_reg_index(reg_map, instr.collection),
                            key |-> get_reg_index(reg_map, instr.member)]>>)
      [] instr.op = "SetMember" ->
             LET v == get_reg_index(reg_map, instr.value)
             IN PushOps(st,
                    <<[op |-> "SetTable",
                       table |-> get_reg_index(reg_map, instr.collection),
                       key |-> get_reg_index(reg_map, instr.member),
                       value |-> v],
                      [op |-> "Move",
                       dest |-> get_phys_reg(reg_map, Reg(instr.dest)),
                       src |-> v]>>)
      [] instr.op = "NewTable" ->
             PushOps(st, <<[op |-> "NewTable",
                   dest |-> get_phys_reg(reg_map, Reg(instr.dest)),
                   size_array |-> IF instr.size_array.kind = "ImmFloat"
                                  THEN instr.size_array.f ELSE 0,
                   size_hash |-> IF instr.size_hash.kind = "ImmFloat"
                                 THEN instr.size_hash.f ELSE 0]>>)
      [] instr.op = "FnProto" ->
             \* IROperand::to_string of a prototype: "@" followed by the name
             LET name == TempString(<<"@" \o instr.func_proto.name>>)
             IN PushOps(add_constant(st, name),
                    <<[op |-> "FnProto",
                       dest |-> get_phys_reg(reg_map, Reg(instr.dest)),
                       proto_idx |-> ConstIdx(st.constants, name)]>>)
      [] instr.op = "Call" ->
             LET r_dest == get_phys_reg(reg_map, Reg(instr.dest))
                 r_func == get_reg_index(reg_map, instr.callee)
                 \* the Moves that marshal the arguments above the callee
                 arg_moves ==
                     [i \in 1..Len(instr.args) |->
                         [op |-> "Move", dest |-> r_func + 1 + (i - 1),
                          src |-> get_reg_index(reg_map, instr.args[i])]]
             IN PushOps(st,
                    arg_moves
                    \o <<[op |-> "Call", func_reg |-> r_func,
                          argc |-> Len(instr.args), retc |-> 1],
                         [op |-> "Move", dest |-> r_dest, src |-> r_func]>>)
      [] instr.op = "LoadGlobal" ->
             LET name == NameConst(st, instr.name)
             IN PushOps(add_constant(st, name),
                    <<[op |-> "GetGlobal",
                       dest |-> get_phys_reg(reg_map, Reg(instr.dest)),
                       name_idx |-> ConstIdx(st.constants, name)]>>)
      [] instr.op = "StoreGlobal" ->
             LET name == NameConst(st, instr.name)
                 s == get_reg_index(reg_map, instr.src)
             IN PushOps(add_constant(st, name),
                    <<[op |-> "SetGlobal",
                       name_idx |-> ConstIdx(st.constants, name), src |-> s],
                      [op |-> "Move",
                       dest |-> get_phys_reg(reg_map, Reg(instr.dest)),
                       src |-> s]>>)
      [] instr.op = "LoadLocal" ->
             IF instr.src.kind = "Slot"
             THEN PushOps(st, <<[op |-> "Move",
                      dest |-> get_phys_reg(reg_map, Reg(instr.dest)),
                      src |-> get_phys_reg(reg_map, instr.src)]>>)
             ELSE st
      [] instr.op = "StoreLocal" ->
             IF instr.dst.kind = "Slot"
             THEN LET val == get_reg_index(reg_map, instr.src)
                  IN PushOps(st,
                         <<[op |-> "Move",
                            dest |-> get_phys_reg(reg_map, instr.dst),
                            src |-> val],
                           [op |-> "Move",
                            dest |-> get_phys_reg(reg_map, Reg(instr.dest)),
                            src |-> val]>>)
             ELSE st
      [] OTHER -> st

emit_terminator(st, terminator, reg_map) ==
    CASE terminator.term = "Return" ->
             IF terminator.vals # <<>>
             THEN PushOps(st,
                      <<[op |-> "Move", dest |-> 0,
                         src |-> get_reg_index(reg_map, terminator.vals[1])],
                        [op |-> "Return", start |-> 0, count |-> 1]>>)
             ELSE PushOps(st, <<[op |-> "Return", start |-> 0, count |-> 0]>>)
      [] terminator.term = "Branch" ->
             PushOps(st,
                 <<[op |-> "Test",
                    reg |-> get_reg_index(reg_map, terminator.cond)],
                   [op |-> "Jump", offset |-> 0],
                   [op |-> "Jump", offset |-> 0]>>)
      [] terminator.term = "Jump" ->
             PushOps(st, <<[op |-> "Jump", offset |-> 0]>>)
      [] OTHER -> st

\* The loop over items lo..hi (blocks in order, each block's instructions and
\* then its terminator), evaluated by halves.
RECURSIVE EmitBlocks(_, _, _, _, _)
EmitBlocks(st, items, reg_map, lo, hi) ==
    IF lo > hi THEN st
    ELSE IF lo = hi
    THEN IF "term" \in DOMAIN items[lo]
         THEN emit_terminator(st, items[lo], reg_map)
         ELSE emit_instr(st, items[lo], reg_map)
    ELSE LET mid == (lo + hi) \div 2
         IN AndThen(EmitBlocks(st, items, reg_map, lo, mid),
                    LAMBDA s : EmitBlocks(s, items, reg_map, mid + 1, hi))

\* BytecodeEmitter::emit: the bytecode and the constant pool of a function.
emit(func, reg_map) ==
    AndThen(ScanOrder(func.basic_blocks),
            LAMBDA items :
                EmitBlocks([bytecode |-> <<>>, constants |-> <<>>,
                            var_literals |-> <<>>],
                           items, reg_map, 1, Len(items)))

(***************************************************************************)
(* The corpus.  Each definition is IRModule.functions as the generator     *)
(* builds it for the quoted Lua text: function literals are named          *)
(* __anon_fn_<id> / __local_fn_<name>_<id>, the top level is _start, and   *)
(* children are closed (and listed) before their parent.                   *)
(***************************************************************************)
BigAtom == "<1MiB>"
BigAtomBytes == 1048576
\* PadAtom stands for a text of PadAtomBytes bytes: with the literal and the
\* concatenation of two of them in the heap, fewer bytes are left under the
\* hard limit than an upvalue object takes.
PadAtom == "<pad>"
PadAtomBytes == 178956811

\* An anonymous closure `function() return <upvalue 0> end` capturing the
\* parent's local slot parent_slot.
ReadsParentLocal(name, parent_slot) ==
    IRFunction(name,
        <<IRBasicBlock(0, <<IRLoadUpVal(0, UpVal(0))>>,
                       IRReturn(<<Reg(0)>>))>>,
        {}, <<IRUpValLocalVar(0, parent_slot)>>, <<>>)

\* ""  (the empty program)
EmptyIR ==
    <<IRFunction("_start", <<IRBasicBlock(0, <<>>, IRReturn(<<Unit>>))>>,
                 {}, <<>>, <<>>)>>

\* S4:  local x = 0  local i = 1
\*      while i <= 5 do x = x + i  i = i + 1 end
\*      print(x)
S4IR ==
    <<IRFunction("_start",
        <<IRBasicBlock(0,
            <<IRLoadImm(0, ImmFloat(0)), IRStoreLocal(1, Slot(0), Reg(0)),
              IRDrop(Reg(1)),
              IRLoadImm(2, ImmFloat(1)), IRStoreLocal(3, Slot(1), Reg(2)),
              IRDrop(Reg(3))>>,
            FallThrough),
          IRBasicBlock(1,
            <<IRLoadLocal(4, Slot(1)), IRLoadImm(5, ImmFloat(5)),
              IRBinary(6, Reg(4), Reg(5), "Leq")>>,
            IRBranch(Reg(6), 2, 3)),
          IRBasicBlock(2,
            <<IRLoadLocal(7, Slot(0)), IRLoadLocal(8, Slot(1)),
              IRBinary(9, Reg(7), Reg(8), "Add"),
              IRStoreLocal(10, Slot(0), Reg(9)), IRDrop(Reg(10)),
              IRLoadLocal(11, Slot(1)), IRLoadImm(12, ImmFloat(1)),
              IRBinary(13, Reg(11), Reg(12), "Add"),
              IRStoreLocal(14, Slot(1), Reg(13)), IRDrop(Reg(14))>>,
            IRJump(1)),
          IRBasicBlock(3,
            <<IRLoadImm(15, ImmStr(<<"print">>)), IRLoadGlobal(16, Reg(15)),
              IRLoadLocal(17, Slot(0)), IRCall(18, Reg(16), <<Reg(17)>>),
              IRDrop(Reg(18))>>,
            IRReturn(<<Unit>>))>>,
        {0, 1}, <<>>, <<>>)>>

\* S5:  local function make(n) return function() return n end end
\*      local f = make(42)
\*      print(f())
S5IR ==
    <<ReadsParentLocal("__anon_fn_1", 0),
      IRFunction("__local_fn_make_0",
        <<IRBasicBlock(0, <<IRFnProto(0, Proto("__anon_fn_1"))>>,
                       IRReturn(<<Reg(0)>>))>>,
        {0}, <<>>, <<"__anon_fn_1">>),
      IRFunction("_start",
        <<IRBasicBlock(0,
            <<IRFnProto(0, Proto("__local_fn_make_0")),
              IRStoreLocal(1, Slot(0), Reg(0)), IRDrop(Reg(1)),
              IRLoadLocal(2, Slot(0)), IRLoadImm(3, ImmFloat(42)),
              IRCall(4, Reg(2), <<Reg(3)>>),
              IRStoreLocal(5, Slot(1), Reg(4)), IRDrop(Reg(5)),
              IRLoadImm(6, ImmStr(<<"print">>)), IRLoadGlobal(7, Reg(6)),
              IRLoadLocal(8, Slot(1)), IRCall(9, Reg(8), <<>>),
              IRCall(10, Reg(7), <<Reg(9)>>), IRDrop(Reg(10))>>,
            IRReturn(<<Unit>>))>>,
        {0, 1}, <<>>, <<"__local_fn_make_0">>)>>

\* Share:  local a = true  local b = true
\*         local f = function() return b end
\*         local g = function() return a end
\*         local h = function() return b end
ShareIR ==
    <<ReadsParentLocal("__anon_fn_0", 1),
      ReadsParentLocal("__anon_fn_1", 0),
      ReadsParentLocal("__anon_fn_2", 1),
      IRFunction("_start",
        <<IRBasicBlock(0,
            <<IRLoadImm(0, ImmBool(TRUE)), IRStoreLocal(1, Slot(0), Reg(0)),
              IRDrop(Reg(1)),
              IRLoadImm(2, ImmBool(TRUE)), IRStoreLocal(3, Slot(1), Reg(2)),
              IRDrop(Reg(3)),
              IRFnProto(4, Proto("__anon_fn_0")),
              IRStoreLocal(5, Slot(2), Reg(4)), IRDrop(Reg(5)),
              IRFnProto(6, Proto("__anon_fn_1")),
              IRStoreLocal(7, Slot(3), Reg(6)), IRDrop(Reg(7)),
              IRFnProto(8, Proto("__anon_fn_2")),
              IRStoreLocal(9, Slot(4), Reg(8)), IRDrop(Reg(9))>>,
            IRReturn(<<Unit>>))>>,
        {0, 1, 2, 3, 4}, <<>>,
        <<"__anon_fn_0", "__anon_fn_1", "__anon_fn_2">>)>>

\* Err:  local a = true
\*       local f = function()
\*         local b = a
\*         nosuch()
\*       end
\*       f()
ErrIR ==
    <<IRFunction("__anon_fn_0",
        <<IRBasicBlock(0,
            <<IRLoadUpVal(0, UpVal(0)), IRStoreLocal(1, Slot(0), Reg(0)),
              IRDrop(Reg(1)),
              IRLoadImm(2, ImmStr(<<"nosuch">>)), IRLoadGlobal(3, Reg(2)),
              IRCall(4, Reg(3), <<>>), IRDrop(Reg(4))>>,
            IRReturn(<<Unit>>))>>,
        {0}, <<IRUpValLocalVar(0, 0)>>, <<>>),
      IRFunction("_start",
        <<IRBasicBlock(0,
            <<IRLoadImm(0, ImmBool(TRUE)), IRStoreLocal(1, Slot(0), Reg(0)),
              IRDrop(Reg(1)),
              IRFnProto(2, Proto("__anon_fn_0")),
              IRStoreLocal(3, Slot(1), Reg(2)), IRDrop(Reg(3)),
              IRLoadLocal(4, Slot(1)), IRCall(5, Reg(4), <<>>),
              IRDrop(Reg(5))>>,
            IRReturn(<<Unit>>))>>,
        {0, 1}, <<>>, <<"__anon_fn_0">>)>>

\* Pow:  local x = 2 ^ 3
PowIR ==
    <<IRFunction("_start",
        <<IRBasicBlock(0,
            <<IRLoadImm(0, ImmFloat(2)), IRLoadImm(1, ImmFloat(3)),
              IRBinary(2, Reg(0), Reg(1), "Pow"),
              IRStoreLocal(3, Slot(0), Reg(2)), IRDrop(Reg(3))>>,
            IRReturn(<<Unit>>))>>,
        {0}, <<>>, <<>>)>>

\* Arith:  local x = nil
\*         local y = 1 + 2
ArithIR ==
    <<IRFunction("_start",
        <<IRBasicBlock(0,
            <<IRLoadImm(0, IRNil), IRStoreLocal(1, Slot(0), Reg(0)),
              IRDrop(Reg(1)),
              IRLoadImm(2, ImmFloat(1)), IRLoadImm(3, ImmFloat(2)),
              IRBinary(4, Reg(2), Reg(3), "Add"),
              IRStoreLocal(5, Slot(1), Reg(4)), IRDrop(Reg(5))>>,
            IRReturn(<<Unit>>))>>,
        {0, 1}, <<>>, <<>>)>>

\* Gc:  local a = true
\*      local mk = function(n) return function() return n end end
\*      local g = function() return a end
\*      local jnk = function() local z = true  local t = {} end
\*      local setg = function() gt = {} end
\*      local f = mk()
\*      jnk()
\*      setg()
\*      local t = {}
\*      t.f = f
\*      local big = "<a literal of 1 MiB>"
\*      local s = big .. big
\*      s = s .. big
GcIR ==
    <<ReadsParentLocal("__anon_fn_1", 0),
      IRFunction("__anon_fn_0",
        <<IRBasicBlock(0, <<IRFnProto(0, Proto("__anon_fn_1"))>>,
                       IRReturn(<<Reg(0)>>))>>,
        {0}, <<>>, <<"__anon_fn_1">>),
      ReadsParentLocal("__anon_fn_2", 0),
      IRFunction("__anon_fn_3",
        <<IRBasicBlock(0,
            <<IRLoadImm(0, ImmBool(TRUE)), IRStoreLocal(1, Slot(0), Reg(0)),
              IRDrop(Reg(1)),
              IRLoadImm(2, ImmFloat(0)), IRLoadImm(3, ImmFloat(0)),
              IRNewTable(4, Reg(2), Reg(3)),
              IRStoreLocal(5, Slot(1), Reg(4)), IRDrop(Reg(5))>>,
            IRReturn(<<Unit>>))>>,
        {0, 1}, <<>>, <<>>),
      IRFunction("__anon_fn_4",
        <<IRBasicBlock(0,
            <<IRLoadImm(0, ImmFloat(0)), IRLoadImm(1, ImmFloat(0)),
              IRNewTable(2, Reg(0), Reg(1)),
              IRLoadImm(3, ImmStr(<<"gt">>)),
              IRStoreGlobal(4, Reg(3), Reg(2)), IRDrop(Reg(4))>>,
            IRReturn(<<Unit>>))>>,
        {}, <<>>, <<>>),
      IRFunction("_start",
        <<IRBasicBlock(0,
            <<IRLoadImm(0, ImmBool(TRUE)), IRStoreLocal(1, Slot(0), Reg(0)),
              IRDrop(Reg(1)),
              IRFnProto(2, Proto("__anon_fn_0")),
              IRStoreLocal(3, Slot(1), Reg(2)), IRDrop(Reg(3)),
              IRFnProto(4, Proto("__anon_fn_2")),
              IRStoreLocal(5, Slot(2), Reg(4)), IRDrop(Reg(5)),
              IRFnProto(6, Proto("__anon_fn_3")),
              IRStoreLocal(7, Slot(3), Reg(6)), IRDrop(Reg(7)),
              IRFnProto(8, Proto("__anon_fn_4")),
              IRStoreLocal(9, Slot(4), Reg(8)), IRDrop(Reg(9)),
              IRLoadLocal(10, Slot(1)), IRCall(11, Reg(10), <<>>),
              IRStoreLocal(12, Slot(5), Reg(11)), IRDrop(Reg(12)),
              IRLoadLocal(13, Slot(3)), IRCall(14, Reg(13), <<>>),
              IRDrop(Reg(14)),
              IRLoadLocal(15, Slot(4)), IRCall(16, Reg(15), <<>>),
              IRDrop(Reg(16)),
              IRLoadImm(17, ImmFloat(0)), IRLoadImm(18, ImmFloat(0)),
              IRNewTable(19, Reg(17), Reg(18)),
              IRStoreLocal(20, Slot(6), Reg(19)), IRDrop(Reg(20)),
              IRLoadLocal(21, Slot(5)), IRLoadLocal(22, Slot(6)),
              IRLoadImm(23, ImmStr(<<"f">>)),
              IRSetMember(24, Reg(22), Reg(23), Reg(21)), IRDrop(Reg(24)),
              IRLoadImm(25, ImmStr(<<BigAtom>>)),
              IRStoreLocal(26, Slot(7), Reg(25)), IRDrop(Reg(26)),
              IRLoadLocal(27, Slot(7)), IRLoadLocal(28, Slot(7)),
              IRBinary(29, Reg(27), Reg(28), "Concat"),
              IRStoreLocal(30, Slot(8), Reg(29)), IRDrop(Reg(30)),
              IRLoadLocal(31, Slot(8)), IRLoadLocal(32, Slot(7)),
              IRBinary(33, Reg(31), Reg(32), "Concat"),
              IRStoreLocal(34, Slot(8), Reg(33)), IRDrop(Reg(34))>>,
            IRReturn(<<Unit>>))>>,
        {0, 1, 2, 3, 4, 5, 6, 7, 8}, <<>>,
        <<"__anon_fn_0", "__anon_fn_2", "__anon_fn_3", "__anon_fn_4">>)>>

\* Intern:  local j = function() local b = "<a literal of 1 MiB>"
\*                               local z = b .. b end
\*          j()
\*          j()
\*          local big = "<the same literal>"
\*          local t = big .. "y"
\*          j()
InternIR ==
    <<IRFunction("__anon_fn_0",
        <<IRBasicBlock(0,
            <<IRLoadImm(0, ImmStr(<<BigAtom>>)),
              IRStoreLocal(1, Slot(0), Reg(0)), IRDrop(Reg(1)),
              IRLoadLocal(2, Slot(0)), IRLoadLocal(3, Slot(0)),
              IRBinary(4, Reg(2), Reg(3), "Concat"),
              IRStoreLocal(5, Slot(1), Reg(4)), IRDrop(Reg(5))>>,
            IRReturn(<<Unit>>))>>,
        {0, 1}, <<>>, <<>>),
      IRFunction("_start",
        <<IRBasicBlock(0,
            <<IRFnProto(0, Proto("__anon_fn_0")),
              IRStoreLocal(1, Slot(0), Reg(0)), IRDrop(Reg(1)),
              IRLoadLocal(2, Slot(0)), IRCall(3, Reg(2), <<>>),
              IRDrop(Reg(3)),
              IRLoadLocal(4, Slot(0)), IRCall(5, Reg(4), <<>>),
              IRDrop(Reg(5)),
              IRLoadImm(6, ImmStr(<<BigAtom>>)),
              IRStoreLocal(7, Slot(1), Reg(6)), IRDrop(Reg(7)),
              IRLoadLocal(8, Slot(1)), IRLoadImm(9, ImmStr(<<"y">>)),
              IRBinary(10, Reg(8), Reg(9), "Concat"),
              IRStoreLocal(11, Slot(2), Reg(10)), IRDrop(Reg(11)),
              IRLoadLocal(12, Slot(0)), IRCall(13, Reg(12), <<>>),
              IRDrop(Reg(13))>>,
            IRReturn(<<Unit>>))>>,
        {0, 1, 2}, <<>>, <<"__anon_fn_0">>)>>

\* Oom:  local s = "<a literal of 1 MiB>"
\*       s = s .. s      (nine times: the ninth asks for 512 MiB)
OomIR ==
    <<IRFunction("_start",
        <<IRBasicBlock(0,
            <<IRLoadImm(0, ImmStr(<<BigAtom>>)),
              IRStoreLocal(1, Slot(0), Reg(0)), IRDrop(Reg(1)),
              IRLoadLocal(2, Slot(0)), IRLoadLocal(3, Slot(0)),
              IRBinary(4, Reg(2), Reg(3), "Concat"),
              IRStoreLocal(5, Slot(0), Reg(4)), IRDrop(Reg(5)),
              IRLoadLocal(6, Slot(0)), IRLoadLocal(7, Slot(0)),
              IRBinary(8, Reg(6), Reg(7), "Concat"),
              IRStoreLocal(9, Slot(0), Reg(8)), IRDrop(Reg(9)),
              IRLoadLocal(10, Slot(0)), IRLoadLocal(11, Slot(0)),
              IRBinary(12, Reg(10), Reg(11), "Concat"),
              IRStoreLocal(13, Slot(0), Reg(12)), IRDrop(Reg(13)),
              IRLoadLocal(14, Slot(0)), IRLoadLocal(15, Slot(0)),
              IRBinary(16, Reg(14), Reg(15), "Concat"),
              IRStoreLocal(17, Slot(0), Reg(16)), IRDrop(Reg(17)),
              IRLoadLocal(18, Slot(0)), IRLoadLocal(19, Slot(0)),
              IRBinary(20, Reg(18), Reg(19), "Concat"),
              IRStoreLocal(21, Slot(0), Reg(20)), IRDrop(Reg(21)),
              IRLoadLocal(22, Slot(0)), IRLoadLocal(23, Slot(0)),
              IRBinary(24, Reg(22), Reg(23), "Concat"),
              IRStoreLocal(25, Slot(0), Reg(24)), IRDrop(Reg(25)),
              IRLoadLocal(26, Slot(0)), IRLoadLocal(27, Slot(0)),
              IRBinary(28, Reg(26), Reg(27), "Concat"),
              IRStoreLocal(29, Slot(0), Reg(28)), IRDrop(Reg(29)),
              IRLoadLocal(30, Slot(0)), IRLoadLocal(31, Slot(0)),
              IRBinary(32, Reg(30), Reg(31), "Concat"),
              IRStoreLocal(33, Slot(0), Reg(32)), IRDrop(Reg(33)),
              IRLoadLocal(34, Slot(0)), IRLoadLocal(35, Slot(0)),
              IRBinary(36, Reg(34), Reg(35), "Concat"),
              IRStoreLocal(37, Slot(0), Reg(36)), IRDrop(Reg(37))>>,
            IRReturn(<<Unit>>))>>,
        {0}, <<>>, <<>>)>>

\* RecScript:  function f() f() end
\*             f()
RecScriptIR ==
    <<IRFunction("__local_fn_f_0",
        <<IRBasicBlock(0,
            <<IRLoadImm(0, ImmStr(<<"f">>)), IRLoadGlobal(1, Reg(0)),
              IRCall(2, Reg(1), <<>>), IRDrop(Reg(2))>>,
            IRReturn(<<Unit>>))>>,
        {}, <<>>, <<>>),
      IRFunction("_start",
        <<IRBasicBlock(0,
            <<IRFnProto(0, Proto("__local_fn_f_0")),
              IRLoadImm(1, ImmStr(<<"f">>)),
              IRStoreGlobal(2, Reg(1), Reg(0)), IRDrop(Reg(2)),
              IRLoadImm(3, ImmStr(<<"f">>)), IRLoadGlobal(4, Reg(3)),
              IRCall(5, Reg(4), <<>>), IRDrop(Reg(5))>>,
            IRReturn(<<Unit>>))>>,
        {}, <<>>, <<"__local_fn_f_0">>)>>

\* RecNative:  function f() print() f() end
\*             f()
RecNativeIR ==
    <<IRFunction("__local_fn_f_0",
        <<IRBasicBlock(0,
            <<IRLoadImm(0, ImmStr(<<"print">>)), IRLoadGlobal(1, Reg(0)),
              IRCall(2, Reg(1), <<>>), IRDrop(Reg(2)),
              IRLoadImm(3, ImmStr(<<"f">>)), IRLoadGlobal(4, Reg(3)),
              IRCall(5, Reg(4), <<>>), IRDrop(Reg(5))>>,
            IRReturn(<<Unit>>))>>,
        {}, <<>>, <<>>),
      IRFunction("_start",
        <<IRBasicBlock(0,
            <<IRFnProto(0, Proto("__local_fn_f_0")),
              IRLoadImm(1, ImmStr(<<"f">>)),
              IRStoreGlobal(2, Reg(1), Reg(0)), IRDrop(Reg(2)),
              IRLoadImm(3, ImmStr(<<"f">>)), IRLoadGlobal(4, Reg(3)),
              IRCall(5, Reg(4), <<>>), IRDrop(Reg(5))>>,
            IRReturn(<<Unit>>))>>,
        {}, <<>>, <<"__local_fn_f_0">>)>>

\* Protos:  local x = 1
\*          local f = function() end
\*          local g = function() end
ProtosIR ==
    <<IRFunction("__anon_fn_0",
        <<IRBasicBlock(0, <<>>, IRReturn(<<Unit>>))>>, {}, <<>>, <<>>),
      IRFunction("__anon_fn_1",
        <<IRBasicBlock(0, <<>>, IRReturn(<<Unit>>))>>, {}, <<>>, <<>>),
      IRFunction("_start",
        <<IRBasicBlock(0,
            <<IRLoadImm(0, ImmFloat(1)), IRStoreLocal(1, Slot(0), Reg(0)),
              IRDrop(Reg(1)),
              IRFnProto(2, Proto("__anon_fn_0")),
              IRStoreLocal(3, Slot(1), Reg(2)), IRDrop(Reg(3)),
              IRFnProto(4, Proto("__anon_fn_1")),
              IRStoreLocal(5, Slot(2), Reg(4)), IRDrop(Reg(5))>>,
            IRReturn(<<Unit>>))>>,
        {0, 1, 2}, <<>>, <<"__anon_fn_0", "__anon_fn_1">>)>>

\* Upvals:  local a = true
\*          local b = false
\*          local f = function()
\*            local x = a
\*            return b
\*          end
\*          f()
\* The closure has two upvalues, a numbered 0 and b numbered 1.  Its
\* upvalues map is a HashMap whose values() VirtualMachine::init collects
\* in the map's iteration order, which the program does not determine:
\* order is one of the orders init can meet.
UpvalsIR(order) ==
    <<IRFunction("__anon_fn_0",
        <<IRBasicBlock(0,
            <<IRLoadUpVal(0, UpVal(0)), IRStoreLocal(1, Slot(0), Reg(0)),
              IRDrop(Reg(1)),
              IRLoadUpVal(2, UpVal(1))>>,
            IRReturn(<<Reg(2)>>))>>,
        {0}, order, <<>>),
      IRFunction("_start",
        <<IRBasicBlock(0,
            <<IRLoadImm(0, ImmBool(TRUE)), IRStoreLocal(1, Slot(0), Reg(0)),
              IRDrop(Reg(1)),
              IRLoadImm(2, ImmBool(FALSE)), IRStoreLocal(3, Slot(1), Reg(2)),
              IRDrop(Reg(3)),
              IRFnProto(4, Proto("__anon_fn_0")),
              IRStoreLocal(5, Slot(2), Reg(4)), IRDrop(Reg(5)),
              IRLoadLocal(6, Slot(2)), IRCall(7, Reg(6), <<>>),
              IRDrop(Reg(7))>>,
            IRReturn(<<Unit>>))>>,
        {0, 1, 2}, <<>>, <<"__anon_fn_0">>)>>

\* Keep:  local mk = function()
\*           local d = true
\*           local t = true
\*           local f = function() return t end
\*           t = {}
\*           return f
\*         end
\*         local f = mk()
\*         local big = "<a literal of 1 MiB>"
\*         local s = big .. big
KeepIR ==
    <<ReadsParentLocal("__anon_fn_1", 1),
      IRFunction("__anon_fn_0",
        <<IRBasicBlock(0,
            <<IRLoadImm(0, ImmBool(TRUE)), IRStoreLocal(1, Slot(0), Reg(0)),
              IRDrop(Reg(1)),
              IRLoadImm(2, ImmBool(TRUE)), IRStoreLocal(3, Slot(1), Reg(2)),
              IRDrop(Reg(3)),
              IRFnProto(4, Proto("__anon_fn_1")),
              IRStoreLocal(5, Slot(2), Reg(4)), IRDrop(Reg(5)),
              IRLoadImm(6, ImmFloat(0)), IRLoadImm(7, ImmFloat(0)),
              IRNewTable(8, Reg(6), Reg(7)),
              IRStoreLocal(9, Slot(1), Reg(8)), IRDrop(Reg(9)),
              IRLoadLocal(10, Slot(2))>>,
            IRReturn(<<Reg(10)>>))>>,
        {0, 1, 2}, <<>>, <<"__anon_fn_1">>),
      IRFunction("_start",
        <<IRBasicBlock(0,
            <<IRFnProto(0, Proto("__anon_fn_0")),
              IRStoreLocal(1, Slot(0), Reg(0)), IRDrop(Reg(1)),
              IRLoadLocal(2, Slot(0)), IRCall(3, Reg(2), <<>>),
              IRStoreLocal(4, Slot(1), Reg(3)), IRDrop(Reg(4)),
              IRLoadImm(5, ImmStr(<<BigAtom>>)),
              IRStoreLocal(6, Slot(2), Reg(5)), IRDrop(Reg(6)),
              IRLoadLocal(7, Slot(2)), IRLoadLocal(8, Slot(2)),
              IRBinary(9, Reg(7), Reg(8), "Concat"),
              IRStoreLocal(10, Slot(3), Reg(9)), IRDrop(Reg(10))>>,
            IRReturn(<<Unit>>))>>,
        {0, 1, 2, 3}, <<>>, <<"__anon_fn_0">>)>>

\* OomUp:  local mk = function()
\*            local a = true
\*            local g = function() return a end
\*          end
\*          local p = "<pad>" .. "<pad>"
\*          mk()
OomUpIR ==
    <<ReadsParentLocal("__anon_fn_1", 0),
      IRFunction("__anon_fn_0",
        <<IRBasicBlock(0,
            <<IRLoadImm(0, ImmBool(TRUE)), IRStoreLocal(1, Slot(0), Reg(0)),
              IRDrop(Reg(1)),
              IRFnProto(2, Proto("__anon_fn_1")),
              IRStoreLocal(3, Slot(1), Reg(2)), IRDrop(Reg(3))>>,
            IRReturn(<<Unit>>))>>,
        {0, 1}, <<>>, <<"__anon_fn_1">>),
      IRFunction("_start",
        <<IRBasicBlock(0,
            <<IRFnProto(0, Proto("__anon_fn_0")),
              IRStoreLocal(1, Slot(0), Reg(0)), IRDrop(Reg(1)),
              IRLoadImm(2, ImmStr(<<PadAtom>>)),
              IRLoadImm(3, ImmStr(<<PadAtom>>)),
              IRBinary(4, Reg(2), Reg(3), "Concat"),
              IRStoreLocal(5, Slot(1), Reg(4)), IRDrop(Reg(5)),
              IRLoadLocal(6, Slot(0)), IRCall(7, Reg(6), <<>>),
              IRDrop(Reg(7))>>,
            IRReturn(<<Unit>>))>>,
        {0, 1}, <<>>, <<"__anon_fn_0">>)>>

\* Lost:  local a = true
\*        local f = function() return a end
\*        f = nil
\*        local big = "<a literal of 1 MiB>"
\*        local s = big .. big
LostIR ==
    <<ReadsParentLocal("__anon_fn_0", 0),
      IRFunction("_start",
        <<IRBasicBlock(0,
            <<IRLoadImm(0, ImmBool(TRUE)), IRStoreLocal(1, Slot(0), Reg(0)),
              IRDrop(Reg(1)),
              IRFnProto(2, Proto("__anon_fn_0")),
              IRStoreLocal(3, Slot(1), Reg(2)), IRDrop(Reg(3)),
              IRLoadImm(4, IRNil), IRStoreLocal(5, Slot(1), Reg(4)),
              IRDrop(Reg(5)),
              IRLoadImm(6, ImmStr(<<BigAtom>>)),
              IRStoreLocal(7, Slot(2), Reg(6)), IRDrop(Reg(7)),
              IRLoadLocal(8, Slot(2)), IRLoadLocal(9, Slot(2)),
              IRBinary(10, Reg(8), Reg(9), "Concat"),
              IRStoreLocal(11, Slot(3), Reg(10)), IRDrop(Reg(11))>>,
            IRReturn(<<Unit>>))>>,
        {0, 1, 2, 3}, <<>>, <<"__anon_fn_0">>)>>

\* The statement f(true, ..., true) with WideArgs arguments, f the local of
\* slot 0; its temporaries are numbered from first on.
WideArgs == 10
WideCall(first) ==
    <<IRLoadLocal(first, Slot(0))>>
        \o [a \in 1..WideArgs |-> IRLoadImm(first + a, ImmBool(TRUE))]
        \o <<IRCall(first + WideArgs + 1, Reg(first),
                    [a \in 1..WideArgs |-> Reg(first + a)]),
             IRDrop(Reg(first + WideArgs + 1))>>

\* Wide:  local f = function() end
\*        f(true, true, true, true, true, true, true, true, true, true)
\*        f(true, true, true, true, true, true, true, true, true, true)
WideIR ==
    <<IRFunction("__anon_fn_0",
        <<IRBasicBlock(0, <<>>, IRReturn(<<Unit>>))>>, {}, <<>>, <<>>),
      IRFunction("_start",
        <<IRBasicBlock(0,
            <<IRFnProto(0, Proto("__anon_fn_0")),
              IRStoreLocal(1, Slot(0), Reg(0)), IRDrop(Reg(1))>>
                \o WideCall(2) \o WideCall(WideArgs + 4),
            IRReturn(<<Unit>>))>>,
        {0}, <<>>, <<"__anon_fn_0">>)>>

\* Native:  local f = function() print() end
\*          f()
\*          print()
NativeIR ==
    <<IRFunction("__anon_fn_0",
        <<IRBasicBlock(0,
            <<IRLoadImm(0, ImmStr(<<"print">>)), IRLoadGlobal(1, Reg(0)),
              IRCall(2, Reg(1), <<>>), IRDrop(Reg(2))>>,
            IRReturn(<<Unit>>))>>,
        {}, <<>>, <<>>),
      IRFunction("_start",
        <<IRBasicBlock(0,
            <<IRFnProto(0, Proto("__anon_fn_0")),
              IRStoreLocal(1, Slot(0), Reg(0)), IRDrop(Reg(1)),
              IRLoadLocal(2, Slot(0)), IRCall(3, Reg(2), <<>>),
              IRDrop(Reg(3)),
              IRLoadImm(4, ImmStr(<<"print">>)), IRLoadGlobal(5, Reg(4)),
              IRCall(6, Reg(5), <<>>), IRDrop(Reg(6))>>,
            IRReturn(<<Unit>>))>>,
        {0}, <<>>, <<"__anon_fn_0">>)>>

\* Same:  local a = "x" .. "y"
\*        local big = "<a literal of 1 MiB>"
\*        local s = big .. big
\*        local b = "x" .. "y"
\*        local e = a == b
\*        local n = a ~= big
SameIR ==
    <<IRFunction("_start",
        <<IRBasicBlock(0,
            <<IRLoadImm(0, ImmStr(<<"x">>)), IRLoadImm(1, ImmStr(<<"y">>)),
              IRBinary(2, Reg(0), Reg(1), "Concat"),
              IRStoreLocal(3, Slot(0), Reg(2)), IRDrop(Reg(3)),
              IRLoadImm(4, ImmStr(<<BigAtom>>)),
              IRStoreLocal(5, Slot(1), Reg(4)), IRDrop(Reg(5)),
              IRLoadLocal(6, Slot(1)), IRLoadLocal(7, Slot(1)),
              IRBinary(8, Reg(6), Reg(7), "Concat"),
              IRStoreLocal(9, Slot(2), Reg(8)), IRDrop(Reg(9)),
              IRLoadImm(10, ImmStr(<<"x">>)), IRLoadImm(11, ImmStr(<<"y">>)),
              IRBinary(12, Reg(10), Reg(11), "Concat"),
              IRStoreLocal(13, Slot(3), Reg(12)), IRDrop(Reg(13)),
              IRLoadLocal(14, Slot(0)), IRLoadLocal(15, Slot(3)),
              IRBinary(16, Reg(14), Reg(15), "Eq"),
              IRStoreLocal(17, Slot(4), Reg(16)), IRDrop(Reg(17)),
              IRLoadLocal(18, Slot(0)), IRLoadLocal(19, Slot(1)),
              IRBinary(20, Reg(18), Reg(19), "Neq"),
              IRStoreLocal(21, Slot(5), Reg(20)), IRDrop(Reg(21))>>,
            IRReturn(<<Unit>>))>>,
        {0, 1, 2, 3, 4, 5}, <<>>, <<>>)>>

Programs ==
    {"Empty", "S4", "S5", "Share", "Err", "Pow", "Arith", "Gc", "Intern",
     "Oom", "Protos", "Upvals", "UpvalsRev", "Keep",
     "OomUp", "Lost", "Wide", "Native", "Same"}
DeepPrograms == {"RecScript", "RecNative"}

IRModule(p) ==
    CASE p = "Empty" -> EmptyIR
      [] p = "S4" -> S4IR
      [] p = "S5" -> S5IR
      [] p = "Share" -> ShareIR
      [] p = "Err" -> ErrIR
      [] p = "Pow" -> PowIR
      [] p = "Arith" -> ArithIR
      [] p = "Gc" -> GcIR
      [] p = "Intern" -> InternIR
      [] p = "Oom" -> OomIR
      [] p = "Protos" -> ProtosIR
      [] p = "Keep" -> KeepIR
      [] p = "OomUp" -> OomUpIR
      [] p = "Lost" -> LostIR
      [] p = "Wide" -> WideIR
      [] p = "Native" -> NativeIR
      [] p = "Same" -> SameIR
      [] p = "Upvals" ->
             UpvalsIR(<<IRUpValLocalVar(0, 0), IRUpValLocalVar(1, 1)>>)
      [] p = "UpvalsRev" ->
             UpvalsIR(<<IRUpValLocalVar(1, 1), IRUpValLocalVar(0, 0)>>)
      [] p = "RecScript" -> RecScriptIR
      [] p = "RecNative" -> RecNativeIR

(***************************************************************************)
(* Heap (backend/vm/heap.rs).  heap.objects maps the address of every      *)
(* allocated object to its GCObject {mark, kind, size, data};              *)
(* heap.all_objects is the intrusive list, newest first; address 0 is the  *)
(* null pointer and next_ptr the next address the allocator hands out.     *)
(* data is the text of a String, the key -> value map of a Table,          *)
(* [name, upvalues] of a Function, and for an UpValue either               *)
(* [state |-> "Open", idx] or [state |-> "Closed", value].                 *)
(***************************************************************************)
MAX_CALL_STACK == 1000
HARD_MEMORY_LIMIT == 536870912
VM_THRESHOLD == 1048576

\* size_of of the object headers and of the element types on a 64-bit target.
SizeOfGCString == 48
SizeOfGCTable == 80
SizeOfGCFunction == 136
SizeOfGCUpValue == 64
SizeOfOpCode == 8
SizeOfLuaValue == 32

NewHeap ==
    [objects |-> <<>>, all_objects |-> <<>>, string_pool |-> <<>>,
     total_allocated |-> 0, threshold |-> VM_THRESHOLD, max_allocated |-> 0,
     next_ptr |-> 1]

\* s.capacity() of a string holding exactly its text: BigAtomBytes for
\* every BigAtom (counted at once) and the length of every other atom.
RECURSIVE StrBytes(_)
StrBytes(s) ==
    IF s = <<>> THEN 0
    ELSE IF \E i \in 1..Len(s) : s[i] \in {BigAtom, PadAtom}
    THEN Cardinality({i \in 1..Len(s) : s[i] = BigAtom}) * BigAtomBytes
         + Cardinality({i \in 1..Len(s) : s[i] = PadAtom}) * PadAtomBytes
         + StrBytes(SelectSeq(s, LAMBDA a : a \notin {BigAtom, PadAtom}))
    ELSE Len(Head(s)) + StrBytes(Tail(s))

\* An allocator without the hard limit.
alloc_raw_object_NoCeiling(heap, data, kind, size) ==
    LET ptr == heap.next_ptr
        obj == [mark |-> FALSE, kind |-> kind, size |-> size, data |-> data]
    IN [heap |-> [heap EXCEPT
            !.objects = @ @@ (ptr :> obj),
            !.all_objects = <<ptr>> \o @,
            !.total_allocated = @ + size,
            !.max_allocated = Max(@, heap.total_allocated + size),
            !.next_ptr = @ + 1],
        ptr |-> ptr]

\* Result [heap, ptr]; ptr = 0 when the hard limit refuses the allocation.
alloc_raw_object(heap, data, kind, size) ==
    IF heap.total_allocated + size > HARD_MEMORY_LIMIT
    THEN [heap |-> heap, ptr |-> 0]
    ELSE LET ptr == heap.next_ptr
             obj == [mark |-> FALSE, kind |-> kind, size |-> size,
                     data |-> data]
         IN [heap |-> [heap EXCEPT
                 !.objects = @ @@ (ptr :> obj),
                 !.all_objects = <<ptr>> \o @,
                 !.total_allocated = @ + size,
                 !.max_allocated = Max(@, heap.total_allocated + size),
                 !.next_ptr = @ + 1],
             ptr |-> ptr]

\* An alloc_string that never looks the text up in the string pool.
alloc_string_NoPool(heap, s) ==
    LET r == alloc_raw_object(heap, s, "String", SizeOfGCString + StrBytes(s))
    IN IF r.ptr = 0 THEN r
       ELSE [heap |-> [r.heap EXCEPT
                          !.string_pool =
                              [text \in (DOMAIN @) \cup {s} |->
                                  IF text = s THEN r.ptr ELSE @[text]]],
             ptr |-> r.ptr]

alloc_string(heap, s) ==
    IF s \in DOMAIN heap.string_pool
    THEN [heap |-> heap, ptr |-> heap.string_pool[s]]
    ELSE LET r == alloc_raw_object(heap, s, "String",
                                   SizeOfGCString + StrBytes(s))
         IN IF r.ptr = 0 THEN r
            ELSE [heap |-> [r.heap EXCEPT
                               !.string_pool = @ @@ (s :> r.ptr)],
                  ptr |-> r.ptr]

\* A new table has an empty map of capacity 0.
alloc_table(heap) == alloc_raw_object(heap, <<>>, "Table", SizeOfGCTable)

alloc_function(heap, data, n_opcodes, n_constants) ==
    alloc_raw_object(heap, data, "Function",
        SizeOfGCFunction + n_opcodes * SizeOfOpCode
        + n_constants * SizeOfLuaValue)

alloc_upvalue_object(heap, data) ==
    alloc_raw_object(heap, data, "UpValue", SizeOfGCUpValue)

check_gc_condition(heap) == heap.total_allocated > heap.threshold

expand_threshold_Keep(heap) == heap

expand_threshold(heap) == [heap EXCEPT !.threshold = @ * 2]

(***************************************************************************)
(* VirtualMachine::init (backend/vm/mod.rs): metadata of every function,   *)
(* the standard library, interned constants, the entry frame.              *)
(***************************************************************************)
\* FuncMetadata of one IR function, constants not yet interned.
FuncMetadataOf(func_ir, scanner, emitted) ==
    [bytecode |-> emitted.bytecode,
     constants |-> emitted.constants,
     num_locals |-> scanner.func_stack_info[1],
     max_stack_size |-> scanner.func_stack_info[2] + 2,
     upvalues_metadata |-> func_ir.upvalues,
     child_protos |-> func_ir.sub_functions]

FuncMetadata(func_ir) ==
    AndThen(global_scan(func_ir),
            LAMBDA scanner :
                AndThen(emit(func_ir, scanner.reg_map),
                        LAMBDA emitted :
                            FuncMetadataOf(func_ir, scanner, emitted)))

\* A finalize_constants that leaves the pool as the emitter built it.
FinalizePool_Skip(heap, constants, i) ==
    [heap |-> heap, constants |-> constants]

\* finalize_constants over one constant pool, from index i on.
RECURSIVE FinalizePool(_, _, _)
FinalizePool(heap, constants, i) ==
    IF i > Len(constants) THEN [heap |-> heap, constants |-> constants]
    ELSE IF constants[i].t = "TempString"
         THEN AndThen(alloc_string(heap, constants[i].s),
                  LAMBDA r :
                      FinalizePool(r.heap,
                          [constants EXCEPT ![i] = String(r.ptr)], i + 1))
         ELSE FinalizePool(heap, constants, i + 1)

\* finalize_constants over the functions listed in names.
RECURSIVE finalize_constants(_, _, _)
finalize_constants(heap, meta, names) ==
    IF names = <<>> THEN [heap |-> heap, func_meta |-> meta]
    ELSE AndThen(FinalizePool(heap, meta[Head(names)].constants, 1),
             LAMBDA r :
                 finalize_constants(r.heap,
                     [meta EXCEPT ![Head(names)].constants = r.constants],
                     Tail(names)))

\* The globals after load_standard_library.
load_standard_library == [name \in {<<"print">>} |-> CFunc("print")]

\* The machine right after init, before the entry frame: func_meta and heap.
Loaded(p) ==
    LET functions == IRModule(p)
        names == {functions[i].name : i \in 1..Len(functions)}
        named(name) ==
            functions[CHOOSE i \in 1..Len(functions) :
                          functions[i].name = name]
    IN AndThen([name \in names |-> FuncMetadata(named(name))],
               LAMBDA meta :
                   finalize_constants(NewHeap, meta,
                       [i \in 1..Len(functions) |-> functions[i].name]))

LoadedPrograms == [p \in Programs \cup DeepPrograms |-> Loaded(p)]

(***************************************************************************)
(* The machine.  A StackFrame is                                           *)
(* [func_name, base_offset, reg_count, pc, ret_dest, upvalues,             *)
(*  out_upvalues]; ret_dest is <<>> for None and <<r>> for Some(r);        *)
(* out_upvalues is a sequence of <<slot, address>> pairs.  globals maps    *)
(* the text of a name to its value.                                        *)
(*                                                                         *)
(* run_state is the position of VirtualMachine::run: "step" before         *)
(* protected_step, "gc" between a step that left the heap over its         *)
(* threshold and the collection, "exited" after the loop, "error" after    *)
(* the error return, "panic" when the process aborted on a Rust panic and  *)
(* "ub" when it dereferenced a freed object.  reported is <<>> or <<e>>    *)
(* with e the VMError given to report_error (the depth of the traceback    *)
(* stands for stack_trace); output is the sequence of lines print wrote.   *)
(***************************************************************************)
\* mark_pending: the addresses the calls of mark_value still pending in a
\* mark phase are to visit, the next one first (empty when the phase is
\* taken in one step).
VARIABLES module, func_meta, call_stack, value_stack, globals, heap,
          output, run_state, reported, mark_pending

vars == <<module, func_meta, call_stack, value_stack, globals, heap,
          output, run_state, reported, mark_pending>>

\* The fields of VirtualMachine the handlers work on.
VM ==
    [func_meta |-> func_meta, call_stack |-> call_stack,
     value_stack |-> value_stack, globals |-> globals, heap |-> heap,
     output |-> output]

\* A handler returns the machine it leaves and how it ended: "ok", "error"
\* with the VMError, "panic" or "ub".
Ok(vm) == [vm |-> vm, status |-> "ok", error |-> <<>>]
Panic(vm) == [vm |-> vm, status |-> "panic", error |-> <<>>]
UseAfterFree(vm) == [vm |-> vm, status |-> "ub", error |-> <<>>]

Top(vm) == vm.call_stack[Len(vm.call_stack)]

\* VirtualMachine::error: the error with the location at raise time.
Err(vm, kind) ==
    [vm |-> vm, status |-> "error",
     error |-> <<[kind |-> kind,
                  func_name |-> IF vm.call_stack = <<>>
                                THEN "<unknown_context>"
                                ELSE Top(vm).func_name,
                  pc |-> IF vm.call_stack = <<>> THEN 0 ELSE Top(vm).pc,
                  stack_depth |-> Len(vm.call_stack)]>>]

\* GlobalStack::reserve
reserve(values, min_size) ==
    IF Len(values) < min_size
    THEN values \o [i \in 1..(min_size - Len(values)) |-> Nil]
    ELSE values

\* A restore that truncates one register below the offset.
restore_BelowOffset(values, offset) ==
    SubSeq(values, 1, Min(offset, Len(values)) - 1)

\* A restore that leaves the stack as long as it was.
restore_Keep(values, offset) == values

\* GlobalStack::restore
restore(values, offset) == SubSeq(values, 1, Min(offset, Len(values)))

\* A stack top that forgets the registers of the top frame.
get_actual_stack_top_BaseOnly(vm) ==
    IF vm.call_stack = <<>> THEN 0 ELSE Top(vm).base_offset

get_actual_stack_top(vm) ==
    IF vm.call_stack = <<>> THEN 0
    ELSE Top(vm).base_offset + Top(vm).reg_count

StackFrame(name, ret_dest, base_offset, reg_count, upvalues) ==
    [func_name |-> name, base_offset |-> base_offset, pc |-> 0,
     ret_dest |-> ret_dest, reg_count |-> reg_count, upvalues |-> upvalues,
     out_upvalues |-> <<>>]

\* make_stack_frame: the machine with the value stack reserved, and the frame.
make_stack_frame(vm, func_name, frame_size, return_dest, upvalues) ==
    LET base_offset == get_actual_stack_top(vm)
    IN [vm |-> [vm EXCEPT !.value_stack =
                              reserve(@, base_offset + frame_size)],
        frame |-> StackFrame(func_name, return_dest, base_offset, frame_size,
                             upvalues)]

push_frame(vm, frame) == [vm EXCEPT !.call_stack = Append(@, frame)]


get_reg(vm, idx) == vm.value_stack[Top(vm).base_offset + idx + 1]

set_reg(vm, idx, val) ==
    [vm EXCEPT !.value_stack[Top(vm).base_offset + idx + 1] = val]

get_constant(vm, idx) == vm.func_meta[Top(vm).func_name].constants[idx + 1]

AddPc(vm, n) == [vm EXCEPT !.call_stack[Len(vm.call_stack)].pc = @ + n]

\* VirtualMachine::init followed by prepare_entry_frame, for program p.
init(p) ==
    LET loaded == LoadedPrograms[p]
        vm0 == [func_meta |-> loaded.func_meta, call_stack |-> <<>>,
                value_stack |-> <<>>, globals |-> load_standard_library,
                heap |-> loaded.heap, output |-> <<>>]
        entry == make_stack_frame(vm0, "_start",
                     loaded.func_meta["_start"].max_stack_size, <<>>, <<>>)
    IN push_frame(entry.vm, entry.frame)

\* The run of program p is at the head of a turn on the machine start.
InitAt(p, start) ==
    \E vm \in {start} :
        /\ module = p
        /\ func_meta = vm.func_meta
        /\ call_stack = vm.call_stack
        /\ value_stack = vm.value_stack
        /\ globals = vm.globals
        /\ heap = vm.heap
        /\ output = vm.output
        /\ run_state = "step"
        /\ reported = <<>>
        /\ mark_pending = <<>>

InitOver(programs) == \E p \in programs : InitAt(p, init(p))

Init == InitOver(Programs)

(***************************************************************************)
(* Instruction handlers (backend/vm/dispatch).                             *)
(***************************************************************************)
RegsInBounds(vm, idxs) ==
    \A idx \in idxs : Top(vm).base_offset + idx < Len(vm.value_stack)

handle_move(vm, dest, src) ==
    IF ~RegsInBounds(vm, {dest, src}) THEN Panic(vm)
    ELSE Ok(AddPc(set_reg(vm, dest, get_reg(vm, src)), 1))

handle_loadk(vm, dest, const_idx) ==
    IF ~RegsInBounds(vm, {dest}) THEN Panic(vm)
    ELSE Ok(AddPc(set_reg(vm, dest, get_constant(vm, const_idx)), 1))

handle_load_nil(vm, dest) ==
    IF ~RegsInBounds(vm, {dest}) THEN Panic(vm)
    ELSE Ok(AddPc(set_reg(vm, dest, Nil), 1))

handle_load_bool(vm, dest, value) ==
    IF ~RegsInBounds(vm, {dest}) THEN Panic(vm)
    ELSE Ok(AddPc(set_reg(vm, dest, Boolean(value)), 1))

\* get_constant_string: the text of a String constant; any other constant
\* is a LinkageError.
IsStringConstant(vm, idx) == get_constant(vm, idx).t = "String"
get_constant_string(vm, idx) ==
    vm.heap.objects[get_constant(vm, idx).ptr].data

handle_get_global(vm, dest, name_idx) ==
    IF ~IsStringConstant(vm, name_idx) THEN Err(vm, "InternalError")
    ELSE LET name == get_constant_string(vm, name_idx)
             vm1 == AddPc(vm, 1)
         IN IF name \in DOMAIN vm.globals
            THEN IF ~RegsInBounds(vm, {dest}) THEN Panic(vm)
                 ELSE Ok(set_reg(vm1, dest, vm.globals[name]))
            ELSE Err(vm1, "UndefinedVariable")

handle_set_global(vm, name_idx, src) ==
    IF ~IsStringConstant(vm, name_idx) THEN Err(vm, "InternalError")
    ELSE IF ~RegsInBounds(vm, {src}) THEN Panic(vm)
    ELSE LET name == get_constant_string(vm, name_idx)
             val == get_reg(vm, src)
         IN Ok([AddPc(vm, 1) EXCEPT !.globals =
                   [n \in (DOMAIN @) \cup {name} |->
                       IF n = name THEN val ELSE @[n]]])

\* handle_add / handle_sub / handle_mul through handle_binary_op.
handle_binary_op(vm, opcode, dest, left, right) ==
    IF ~RegsInBounds(vm, {left, right}) THEN Panic(vm)
    ELSE LET vm1 == AddPc(vm, 1)
             v1 == get_reg(vm, left)
             v2 == get_reg(vm, right)
             op_fn(n1, n2) ==
                 CASE opcode = "Add" -> n1 + n2
                   [] opcode = "Sub" -> n1 - n2
                   [] opcode = "Mul" -> n1 * n2
         IN IF v1.t = "Number" /\ v2.t = "Number"
            THEN IF ~RegsInBounds(vm, {dest}) THEN Panic(vm)
                 ELSE Ok(set_reg(vm1, dest, Number(op_fn(v1.n, v2.n))))
            ELSE Err(vm1, "TypeError")

\* handle_lt / handle_gt / handle_le / handle_ge.
handle_relational(vm, opcode, dest, left, right) ==
    IF ~RegsInBounds(vm, {left, right}) THEN Panic(vm)
    ELSE LET vm1 == AddPc(vm, 1)
             v1 == get_reg(vm, left)
             v2 == get_reg(vm, right)
             cmp(n1, n2) ==
                 CASE opcode = "Lt" -> n1 < n2
                   [] opcode = "Gt" -> n1 > n2
                   [] opcode = "Le" -> n1 <= n2
                   [] opcode = "Ge" -> n1 >= n2
         IN CASE v1.t = "Number" /\ v2.t = "Number" ->
                     IF ~RegsInBounds(vm, {dest}) THEN Panic(vm)
                     ELSE Ok(set_reg(vm1, dest, Boolean(cmp(v1.n, v2.n))))
              [] ~(v1.t = "String" /\ v2.t = "String")
                 /\ ~(v1.t = "Number" /\ v2.t = "Number") ->
                     Err(vm1, "TypeError")

\* handle_eq / handle_ne through handle_compare: == and != of LuaValue, which
\* compare heap references by address.
handle_compare(vm, opcode, dest, left, right) ==
    IF ~RegsInBounds(vm, {left, right, dest}) THEN Panic(vm)
    ELSE LET v1 == get_reg(vm, left)
             v2 == get_reg(vm, right)
             res == IF opcode = "Eq" THEN v1 = v2 ELSE v1 # v2
         IN Ok(set_reg(AddPc(vm, 1), dest, Boolean(res)))

\* LuaValue::is_truthy
is_truthy(val) == ~(val.t = "Nil" \/ (val.t = "Boolean" /\ ~val.b))

handle_test(vm, reg) ==
    IF ~RegsInBounds(vm, {reg}) THEN Panic(vm)
    ELSE IF ~is_truthy(get_reg(vm, reg)) THEN Ok(AddPc(vm, 2))
    ELSE Ok(AddPc(vm, 1))

handle_jump(vm, offset) ==
    Ok([vm EXCEPT !.call_stack[Len(vm.call_stack)].pc = Max(@ + offset, 0)])

\* String + &str on texts: the atoms of both, the atoms that meet merged
\* unless one of them is BigAtom or PadAtom.
StrConcat(s1, s2) ==
    IF s1 = <<>> \/ s2 = <<>> THEN s1 \o s2
    ELSE IF {s1[Len(s1)], s2[1]} \cap {BigAtom, PadAtom} # {} THEN s1 \o s2
    ELSE SubSeq(s1, 1, Len(s1) - 1) \o <<s1[Len(s1)] \o s2[1]>> \o Tail(s2)

\* value_to_string, for the values it converts (strings and numbers).
value_to_string(vm, val) ==
    CASE val.t = "String" -> vm.heap.objects[val.ptr].data
      [] val.t = "Number" -> <<ToString(val.n)>>

handle_concat(vm, dest, left, right) ==
    IF ~RegsInBounds(vm, {left, right}) THEN Panic(vm)
    ELSE LET vm1 == AddPc(vm, 1)
             v1 == get_reg(vm, left)
             v2 == get_reg(vm, right)
         IN IF v1.t \notin {"String", "Number"}
               \/ v2.t \notin {"String", "Number"}
            THEN Err(vm1, "TypeError")
            ELSE LET combined == StrConcat(value_to_string(vm, v1),
                                           value_to_string(vm, v2))
                     r == alloc_string(vm.heap, combined)
                 IN IF r.ptr = 0 THEN Err(vm1, "OutOfMemory")
                    ELSE IF ~RegsInBounds(vm, {dest}) THEN Panic(vm)
                    ELSE Ok(set_reg([vm1 EXCEPT !.heap = r.heap], dest,
                                    String(r.ptr)))

handle_new_table(vm, dest) ==
    LET vm1 == AddPc(vm, 1)
        r == alloc_table(vm.heap)
    IN IF r.ptr = 0 THEN Err(vm1, "OutOfMemory")
       ELSE IF ~RegsInBounds(vm, {dest}) THEN Panic(vm)
       ELSE Ok(set_reg([vm1 EXCEPT !.heap = r.heap], dest, Table(r.ptr)))

handle_set_table(vm, t_reg, k_reg, v_reg) ==
    IF ~RegsInBounds(vm, {t_reg, k_reg, v_reg}) THEN Panic(vm)
    ELSE LET vm1 == AddPc(vm, 1)
             table_val == get_reg(vm, t_reg)
             key == get_reg(vm, k_reg)
             val == get_reg(vm, v_reg)
         IN IF table_val.t # "Table" \/ key = Nil THEN Err(vm1, "TypeError")
            ELSE IF table_val.ptr \notin DOMAIN vm.heap.objects
            THEN UseAfterFree(vm)
            ELSE Ok([vm1 EXCEPT !.heap.objects[table_val.ptr].data =
                        [k \in (DOMAIN @) \cup {key} |->
                            IF k = key THEN val ELSE @[k]]])

\* <[(usize, ptr)]>::binary_search_by_key(&slot, |(s, _)| *s) of the Rust
\* standard library: Ok(index) or Err(insertion point), 0-based.
RECURSIVE BinarySearchBase(_, _, _, _)
BinarySearchBase(out_upvalues, slot, base, size) ==
    IF size <= 1 THEN base
    ELSE LET half == size \div 2
             mid == base + half
         IN BinarySearchBase(out_upvalues, slot,
                IF out_upvalues[mid + 1][1] > slot THEN base ELSE mid,
                size - half)

binary_search_by_key(out_upvalues, slot) ==
    IF out_upvalues = <<>> THEN [found |-> FALSE, idx |-> 0]
    ELSE LET base == BinarySearchBase(out_upvalues, slot, 0,
                                      Len(out_upvalues))
             key == out_upvalues[base + 1][1]
         IN IF key = slot THEN [found |-> TRUE, idx |-> base]
            ELSE [found |-> FALSE,
                  idx |-> base + (IF key < slot THEN 1 ELSE 0)]

Open(stack_idx) == [state |-> "Open", idx |-> stack_idx]
Closed(val) == [state |-> "Closed", value |-> val]

\* The closure of the map over upvalues_metadata in handle_fn_proto, for one
\* descriptor.  acc holds the heap, the captured upvalues so far, the new
\* out_upvalues so far and whether an allocation was refused.
CaptureUpvalue(acc, curr_frame, upval) ==
    IF upval.ty = "LocalVar"
    THEN LET search == binary_search_by_key(curr_frame.out_upvalues,
                                            upval.idx)
         IN IF search.found
            THEN [acc EXCEPT !.captured =
                     Append(@, curr_frame.out_upvalues[search.idx + 1][2])]
            ELSE LET r == alloc_upvalue_object(acc.heap,
                              Open(curr_frame.base_offset + upval.idx))
                 IN IF r.ptr = 0 THEN [acc EXCEPT !.refused = TRUE]
                    ELSE [heap |-> r.heap,
                          captured |-> Append(acc.captured, r.ptr),
                          out_upvalues |-> Append(acc.out_upvalues,
                                                  <<upval.idx, r.ptr>>),
                          refused |-> acc.refused]
    ELSE [acc EXCEPT !.captured =
             Append(@, IF upval.idx < Len(curr_frame.upvalues)
                       THEN curr_frame.upvalues[upval.idx + 1] ELSE 0)]

RECURSIVE CaptureUpvalues(_, _, _, _)
CaptureUpvalues(acc, curr_frame, upvalues_metadata, i) ==
    IF i > Len(upvalues_metadata) \/ acc.refused THEN acc
    ELSE CaptureUpvalues(
             CaptureUpvalue(acc, curr_frame, upvalues_metadata[i]),
             curr_frame, upvalues_metadata, i + 1)

\* A frame that forgets the upvalues opened on it.
ExtendOutUpvalues_Forget(out_upvalues, opened) == out_upvalues

\* frame.out_upvalues.extend(out_upvalues), after the map.
ExtendOutUpvalues(out_upvalues, opened) == out_upvalues \o opened

handle_fn_proto(vm, dest, proto_idx) ==
    LET vm1 == AddPc(vm, 1)
        curr_frame == Top(vm1)
        curr_meta == vm.func_meta[curr_frame.func_name]
    IN IF ~(proto_idx < Len(curr_meta.child_protos))
       THEN Err(vm1, "InternalError")
       ELSE
       LET sub_func_name == curr_meta.child_protos[proto_idx + 1]
           sub_meta == vm.func_meta[sub_func_name]
           acc == CaptureUpvalues(
                      [heap |-> vm.heap, captured |-> <<>>,
                       out_upvalues |-> <<>>, refused |-> FALSE],
                      curr_frame, sub_meta.upvalues_metadata, 1)
           new_func == [name |-> sub_func_name,
                        constants |-> sub_meta.constants,
                        upvalues |-> acc.captured]
           r == alloc_function(acc.heap, new_func, Len(sub_meta.bytecode),
                               Len(sub_meta.constants))
           vm2 == [vm1 EXCEPT
                      !.call_stack[Len(vm.call_stack)].out_upvalues =
                          ExtendOutUpvalues(@, acc.out_upvalues),
                      !.heap = r.heap]
       IN IF acc.refused THEN Panic(vm)
          ELSE IF r.ptr = 0 THEN Err(vm2, "OutOfMemory")
          ELSE IF ~RegsInBounds(vm, {dest}) THEN Panic(vm)
          ELSE Ok(set_reg(vm2, dest, Function(r.ptr)))

\* pop_frame.  Every (slot, upval) of the frame's out_upvalues is closed over
\* the value at base_offset + slot, then the frame leaves the call stack.
\* The result carries the popped frame.
close_upvalues(vm, frame) ==
    [vm EXCEPT !.heap.objects =
        [ptr \in DOMAIN @ |->
            IF \E i \in 1..Len(frame.out_upvalues) :
                   frame.out_upvalues[i][2] = ptr
            THEN LET i == CHOOSE i \in 1..Len(frame.out_upvalues) :
                              frame.out_upvalues[i][2] = ptr
                     slot == frame.out_upvalues[i][1]
                 IN [@[ptr] EXCEPT !.data =
                        Closed(vm.value_stack[frame.base_offset + slot + 1])]
            ELSE @[ptr]]]

pop_frame(vm) ==
    LET frame == Top(vm)
        closed == close_upvalues(vm, frame)
    IN [vm |-> [closed EXCEPT !.call_stack =
                   SubSeq(@, 1, Len(vm.call_stack) - 1)],
        frame |-> frame]

\* The copy of the results into the caller's registers from ret_dest on.
RECURSIVE StoreResults(_, _, _, _)
StoreResults(vm, dest_idx, results, i) ==
    IF i > Len(results) THEN vm
    ELSE StoreResults(
             IF dest_idx + (i - 1) < Top(vm).reg_count
             THEN set_reg(vm, dest_idx + (i - 1), results[i]) ELSE vm,
             dest_idx, results, i + 1)

handle_return(vm, start, count) ==
    IF count > 1 THEN Err(vm, "MultipleReturnValues")
    ELSE IF ~RegsInBounds(vm, {start + i : i \in 0..(count - 1)})
    THEN Panic(vm)
    ELSE IF \E i \in 1..Len(Top(vm).out_upvalues) :
                Top(vm).out_upvalues[i][2] \notin DOMAIN vm.heap.objects
    THEN UseAfterFree(vm)
    ELSE LET results == [i \in 1..count |-> get_reg(vm, start + (i - 1))]
             popped == pop_frame(vm)
             last_frame == popped.frame
         IN IF popped.vm.call_stack = <<>> THEN Ok(popped.vm)
            ELSE LET stored == IF last_frame.ret_dest # <<>>
                               THEN StoreResults(popped.vm,
                                        last_frame.ret_dest[1], results, 1)
                               ELSE popped.vm
                 IN Ok([stored EXCEPT !.value_stack =
                           restore(@, last_frame.base_offset)])

\* The text print writes for a value.
FormatValue(vm, val) ==
    CASE val.t = "Nil" -> <<"nil">>
      [] val.t = "Boolean" -> <<IF val.b THEN "true" ELSE "false">>
      [] val.t = "Number" -> <<ToString(val.n)>>
      [] val.t = "String" -> vm.heap.objects[val.ptr].data
      [] val.t = "Table" -> <<"table: " \o ToString(val.ptr)>>
      [] val.t = "Function" -> <<"function: " \o ToString(val.ptr)>>
      [] val.t = "CFunc" -> <<"function: " \o val.name>>
      [] OTHER -> <<"unknown">>

\* lua_builtin_print, running on the sentinel frame: get_reg(i) for every
\* i < argc, then the line.  The result count is 0.
lua_builtin_print(vm, argc) ==
    IF ~RegsInBounds(vm, 0..(argc - 1)) THEN Panic(vm)
    ELSE Ok([vm EXCEPT !.output =
                Append(@, [i \in 1..argc |->
                              FormatValue(vm, get_reg(vm, i - 1))])])

RECURSIVE FillNil(_, _, _, _)
FillNil(vm, func_idx, i, expected) ==
    IF i >= expected THEN vm
    ELSE FillNil(set_reg(vm, func_idx + i, Nil), func_idx, i + 1, expected)

\* A call stack one frame too deep for the bound check of handle_call.
CallStackFull_OffByOne(vm) == Len(vm.call_stack) > MAX_CALL_STACK

\* The bound check of handle_call.
CallStackFull(vm) == Len(vm.call_stack) >= MAX_CALL_STACK

handle_call(vm, func_reg, argc, retc) ==
    LET vm1 == AddPc(vm, 1) IN
    IF ~RegsInBounds(vm, {func_reg}) THEN Panic(vm)
    ELSE IF CallStackFull(vm)
    THEN Err(vm1, "StackOverflow")
    ELSE
    LET func_val == get_reg(vm, func_reg) IN
    CASE func_val.t = "Function" ->
             IF func_val.ptr \notin DOMAIN vm.heap.objects
             THEN UseAfterFree(vm)
             ELSE LET func_obj == vm.heap.objects[func_val.ptr].data
                      meta == vm.func_meta[func_obj.name]
                      made == make_stack_frame(vm1, func_obj.name,
                                  meta.max_stack_size, <<func_reg>>,
                                  func_obj.upvalues)
                  IN Ok(push_frame(made.vm, made.frame))
      [] func_val.t = "CFunc" ->
             LET stack_top == get_actual_stack_top(vm1)
                 made == make_stack_frame(vm1, <<"__native_", func_reg>>, 0,
                                          <<func_reg>>, <<>>)
                 called == lua_builtin_print(
                               push_frame(made.vm, made.frame), argc)
                 popped == pop_frame(called.vm).vm
                 restored == [popped EXCEPT !.value_stack =
                                 restore(@, stack_top)]
             IN IF called.status # "ok" THEN Panic(vm)
                ELSE Ok(IF retc > 0
                        THEN FillNil(restored, func_reg, 0, retc - 1)
                        ELSE restored)
      [] OTHER -> Err(vm1, "InvalidCall")

(***************************************************************************)
(* The collector (mark_objects, mark_value, mark_raw, sweep_objects).      *)
(***************************************************************************)
\* The address a value carries, if it is a heap value.
ValueRefs(val) ==
    IF val.t \in {"String", "Table", "Function"} THEN {val.ptr} ELSE {}

SeqRefs(vals) == UNION {ValueRefs(vals[i]) : i \in 1..Len(vals)}

\* A mark phase for which an upvalue object is a leaf.
UpValueRefs_Leaf(obj) == {}

\* What the mark phase goes on to from an upvalue object: the value a closed
\* upvalue owns.
UpValueRefs(obj) ==
    IF obj.data.state = "Closed" THEN ValueRefs(obj.data.value) ELSE {}

\* What mark_value goes on to after mark_raw marked the object at ptr: the
\* keys and values of a table, the constants and the upvalues of a function,
\* the value of a closed upvalue.
Children(objects, ptr) ==
    LET obj == objects[ptr]
    IN CASE obj.kind = "String" -> {}
         [] obj.kind = "Table" ->
                UNION {ValueRefs(k) \cup ValueRefs(obj.data[k]) :
                          k \in DOMAIN obj.data}
         [] obj.kind = "Function" ->
                SeqRefs(obj.data.constants)
                    \cup {obj.data.upvalues[i] :
                             i \in 1..Len(obj.data.upvalues)}
         [] obj.kind = "UpValue" -> UpValueRefs(obj)

\* mark_value on every address of ptrs: mark_raw refuses the null pointer and
\* the objects already marked, the others are marked and traversed.
RECURSIVE mark_value(_, _, _)
mark_value(objects, marked, ptrs) ==
    LET fresh == (ptrs \cap DOMAIN objects) \ marked
    IN IF fresh = {} THEN marked
       ELSE mark_value(objects, marked \cup fresh,
                       UNION {Children(objects, ptr) : ptr \in fresh})

GlobalRefs(vm) == UNION {ValueRefs(vm.globals[n]) : n \in DOMAIN vm.globals}
StackRefs(vm) == SeqRefs(vm.value_stack)
ConstantRefs(vm) ==
    UNION {SeqRefs(vm.func_meta[f].constants) : f \in DOMAIN vm.func_meta}
FrameUpvalueRefs(vm) ==
    UNION {{vm.call_stack[i].upvalues[j] :
               j \in 1..Len(vm.call_stack[i].upvalues)} :
           i \in 1..Len(vm.call_stack)}

\* A mark phase that leaves the value stack out of the roots.
mark_objects_SkipStack(vm) ==
    LET objects == vm.heap.objects
        globals_marked == mark_value(objects, {}, GlobalRefs(vm))
        constants_marked ==
            mark_value(objects, globals_marked, ConstantRefs(vm))
    IN mark_value(objects, constants_marked, FrameUpvalueRefs(vm))

\* mark_objects: the set of marked addresses.
mark_objects(vm) ==
    LET objects == vm.heap.objects
        globals_marked == mark_value(objects, {}, GlobalRefs(vm))
        stack_marked == mark_value(objects, globals_marked, StackRefs(vm))
        constants_marked ==
            mark_value(objects, stack_marked, ConstantRefs(vm))
    IN mark_value(objects, constants_marked, FrameUpvalueRefs(vm))

RECURSIVE SumSizes(_, _)
SumSizes(objects, ptrs) ==
    IF ptrs = {} THEN 0
    ELSE LET ptr == CHOOSE q \in ptrs : TRUE
         IN objects[ptr].size + SumSizes(objects, ptrs \ {ptr})

\* A sweep that leaves the texts of the swept strings in the string pool.
sweep_objects_KeepPool(hp, marked) ==
    LET swept == DOMAIN hp.objects \ marked
    IN [hp EXCEPT
           !.all_objects = SelectSeq(@, LAMBDA ptr : ptr \in marked),
           !.objects = [ptr \in marked |-> @[ptr]],
           !.total_allocated = Max(0, @ - SumSizes(hp.objects, swept))]

\* A sweep that reclaims without deducting the sizes from total_allocated.
sweep_objects_NoDeduct(hp, marked) ==
    LET swept == DOMAIN hp.objects \ marked
        swept_texts == {hp.objects[ptr].data :
                           ptr \in {q \in swept :
                                       hp.objects[q].kind = "String"}}
    IN [hp EXCEPT
           !.all_objects = SelectSeq(@, LAMBDA ptr : ptr \in marked),
           !.objects = [ptr \in marked |-> @[ptr]],
           !.string_pool = [text \in DOMAIN @ \ swept_texts |-> @[text]]]

\* A sweep that leaves the mark of the objects it keeps set.
sweep_objects_KeepMark(hp, marked) ==
    LET swept == DOMAIN hp.objects \ marked
        swept_texts == {hp.objects[ptr].data :
                           ptr \in {q \in swept :
                                       hp.objects[q].kind = "String"}}
    IN [hp EXCEPT
           !.all_objects = SelectSeq(@, LAMBDA ptr : ptr \in marked),
           !.objects = [ptr \in marked |-> [@[ptr] EXCEPT !.mark = TRUE]],
           !.total_allocated = Max(0, @ - SumSizes(hp.objects, swept)),
           !.string_pool = [text \in DOMAIN @ \ swept_texts |-> @[text]]]

\* sweep_objects: the unmarked objects leave the list, their sizes leave
\* total_allocated, the texts of the swept strings leave the string pool.
sweep_objects(hp, marked) ==
    LET swept == DOMAIN hp.objects \ marked
        swept_texts == {hp.objects[ptr].data :
                           ptr \in {q \in swept :
                                       hp.objects[q].kind = "String"}}
    IN [hp EXCEPT
           !.all_objects = SelectSeq(@, LAMBDA ptr : ptr \in marked),
           !.objects = [ptr \in marked |-> @[ptr]],
           !.total_allocated = Max(0, @ - SumSizes(hp.objects, swept)),
           !.string_pool = [text \in DOMAIN @ \ swept_texts |-> @[text]]]

(***************************************************************************)
(* VirtualMachine::run.  Each action is one turn of the loop on one kind   *)
(* of instruction: protected_step fetches the instruction of the top       *)
(* frame, execute_instruction dispatches it, and run looks at the result.  *)
(* Every bytecode the machine runs comes from the emitter, which emits no  *)
(* GetUpVal, SetUpVal, Push or Halt.                                       *)
(***************************************************************************)
CurrentFrame == call_stack[Len(call_stack)]
Bytecode == func_meta[CurrentFrame.func_name].bytecode
Instr == Bytecode[CurrentFrame.pc + 1]

\* execute_instruction: the handler of the opcode, InternalError for an
\* opcode without an arm.
execute_instruction(vm, instr) ==
    CASE instr.op = "Move" -> handle_move(vm, instr.dest, instr.src)
      [] instr.op = "LoadK" -> handle_loadk(vm, instr.dest, instr.const_idx)
      [] instr.op = "LoadNil" -> handle_load_nil(vm, instr.dest)
      [] instr.op = "LoadBool" ->
             handle_load_bool(vm, instr.dest, instr.value)
      [] instr.op = "GetGlobal" ->
             handle_get_global(vm, instr.dest, instr.name_idx)
      [] instr.op = "SetGlobal" ->
             handle_set_global(vm, instr.name_idx, instr.src)
      [] instr.op \in {"Add", "Sub", "Mul"} ->
             handle_binary_op(vm, instr.op, instr.dest, instr.left,
                              instr.right)
      [] instr.op \in {"Lt", "Gt", "Le", "Ge"} ->
             handle_relational(vm, instr.op, instr.dest, instr.left,
                               instr.right)
      [] instr.op \in {"Eq", "Ne"} ->
             handle_compare(vm, instr.op, instr.dest, instr.left,
                            instr.right)
      [] instr.op = "Concat" ->
             handle_concat(vm, instr.dest, instr.left, instr.right)
      [] instr.op = "NewTable" -> handle_new_table(vm, instr.dest)
      [] instr.op = "SetTable" ->
             handle_set_table(vm, instr.table, instr.key, instr.value)
      [] instr.op = "FnProto" ->
             handle_fn_proto(vm, instr.dest, instr.proto_idx)
      [] instr.op = "Test" -> handle_test(vm, instr.reg)
      [] instr.op = "Jump" -> handle_jump(vm, instr.offset)
      [] instr.op = "Call" ->
             handle_call(vm, instr.func_reg, instr.argc, instr.retc)
      [] instr.op = "Return" -> handle_return(vm, instr.start, instr.count)
      [] OTHER -> Err(vm, "InternalError")

\* protected_step on a machine with a frame on the call stack.
protected_step(vm) ==
    LET meta == vm.func_meta[Top(vm).func_name]
    IN IF Top(vm).pc >= Len(meta.bytecode) THEN Err(vm, "InternalError")
       ELSE execute_instruction(vm, meta.bytecode[Top(vm).pc + 1])

\* The loop is at the head of a turn whose instruction has an opcode of ops.
Fetch(ops) ==
    /\ run_state = "step"
    /\ CurrentFrame.pc < Len(Bytecode)
    /\ Instr.op \in ops

\* A loop that reports the error and leaves the frames on the call stack.
Commit_KeepFrames(r) ==
    /\ UNCHANGED <<module, func_meta, mark_pending>>
    /\ CASE r.status = "ok" ->
                /\ call_stack' = r.vm.call_stack
                /\ value_stack' = r.vm.value_stack
                /\ globals' = r.vm.globals
                /\ heap' = r.vm.heap
                /\ output' = r.vm.output
                /\ reported' = reported
                /\ run_state' = IF check_gc_condition(r.vm.heap) THEN "gc"
                                ELSE IF r.vm.call_stack = <<>> THEN "exited"
                                ELSE "step"
         [] r.status = "error" ->
                /\ call_stack' = r.vm.call_stack
                /\ value_stack' = r.vm.value_stack
                /\ globals' = r.vm.globals
                /\ heap' = r.vm.heap
                /\ output' = r.vm.output
                /\ reported' = r.error
                /\ run_state' = "error"
         [] r.status \in {"panic", "ub"} ->
                /\ UNCHANGED <<call_stack, value_stack, globals, heap,
                               output, reported>>
                /\ run_state' = r.status

\* The rest of the turn: what run does with the result r of protected_step.
\* A step that left total_allocated over the threshold is followed, in the
\* same turn, by the collection (run_state "gc", where only RunGC is
\* enabled).
Commit(r) ==
    /\ UNCHANGED <<module, func_meta, mark_pending>>
    /\ CASE r.status = "ok" ->
                /\ call_stack' = r.vm.call_stack
                /\ value_stack' = r.vm.value_stack
                /\ globals' = r.vm.globals
                /\ heap' = r.vm.heap
                /\ output' = r.vm.output
                /\ reported' = reported
                /\ run_state' = IF check_gc_condition(r.vm.heap) THEN "gc"
                                ELSE IF r.vm.call_stack = <<>> THEN "exited"
                                ELSE "step"
         [] r.status = "error" ->
                /\ call_stack' = <<>>
                /\ value_stack' = r.vm.value_stack
                /\ globals' = r.vm.globals
                /\ heap' = r.vm.heap
                /\ output' = r.vm.output
                /\ reported' = r.error
                /\ run_state' = "error"
         [] r.status \in {"panic", "ub"} ->
                /\ UNCHANGED <<call_stack, value_stack, globals, heap,
                               output, reported>>
                /\ run_state' = r.status

\* One action per opcode class: a turn of the loop on such an instruction.
StepMove ==
    /\ Fetch({"Move"})
    /\ \E r \in {protected_step(VM)} : Commit(r)

StepLoadK ==
    /\ Fetch({"LoadK"})
    /\ \E r \in {protected_step(VM)} : Commit(r)

StepLoadNil ==
    /\ Fetch({"LoadNil"})
    /\ \E r \in {protected_step(VM)} : Commit(r)

StepLoadBool ==
    /\ Fetch({"LoadBool"})
    /\ \E r \in {protected_step(VM)} : Commit(r)

StepGetGlobal ==
    /\ Fetch({"GetGlobal"})
    /\ \E r \in {protected_step(VM)} : Commit(r)

StepSetGlobal ==
    /\ Fetch({"SetGlobal"})
    /\ \E r \in {protected_step(VM)} : Commit(r)

StepArith ==
    /\ Fetch({"Add", "Sub", "Mul"})
    /\ \E r \in {protected_step(VM)} : Commit(r)

StepRelational ==
    /\ Fetch({"Lt", "Gt", "Le", "Ge"})
    /\ \E r \in {protected_step(VM)} : Commit(r)

StepCompare ==
    /\ Fetch({"Eq", "Ne"})
    /\ \E r \in {protected_step(VM)} : Commit(r)

StepConcat ==
    /\ Fetch({"Concat"})
    /\ \E r \in {protected_step(VM)} : Commit(r)

StepNewTable ==
    /\ Fetch({"NewTable"})
    /\ \E r \in {protected_step(VM)} : Commit(r)

StepSetTable ==
    /\ Fetch({"SetTable"})
    /\ \E r \in {protected_step(VM)} : Commit(r)

StepFnProto ==
    /\ Fetch({"FnProto"})
    /\ \E r \in {protected_step(VM)} : Commit(r)

StepTest ==
    /\ Fetch({"Test"})
    /\ \E r \in {protected_step(VM)} : Commit(r)

StepJump ==
    /\ Fetch({"Jump"})
    /\ \E r \in {protected_step(VM)} : Commit(r)

StepCall ==
    /\ Fetch({"Call"})
    /\ \E r \in {protected_step(VM)} : Commit(r)

StepReturn ==
    /\ Fetch({"Return"})
    /\ \E r \in {protected_step(VM)} : Commit(r)

\* The InternalError of protected_step (pc past the bytecode) and of
\* execute_instruction (no arm for the opcode).
StepInternalError ==
    /\ run_state = "step"
    /\ \/ ~(CurrentFrame.pc < Len(Bytecode))
       \/ Instr.op = "Pow"
    /\ \E r \in {protected_step(VM)} : Commit(r)

\* The collection at the end of a turn whose step left total_allocated over
\* the threshold; the loop then goes on, or ends on an empty call stack.
\* The mark phase dereferences a freed object: a root, or a field of a
\* marked object, holds an address that is neither null nor allocated.
Dangling(vm, marked) ==
    LET live == DOMAIN vm.heap.objects \cup {0}
    IN \/ ~(GlobalRefs(vm) \cup StackRefs(vm) \cup ConstantRefs(vm)
              \cup FrameUpvalueRefs(vm) \subseteq live)
       \/ \E ptr \in marked :
              ~(Children(vm.heap.objects, ptr) \subseteq live)

RunGC ==
    /\ run_state = "gc"
    /\ \E marked \in {mark_objects(VM)} :
           IF Dangling(VM, marked)
           THEN /\ run_state' = "ub"
                /\ heap' = heap
           ELSE /\ heap' = sweep_objects(expand_threshold(heap), marked)
                /\ run_state' = IF call_stack = <<>> THEN "exited"
                                ELSE "step"
    /\ UNCHANGED <<module, func_meta, call_stack, value_stack, globals,
                   output, reported, mark_pending>>

Next ==
    \/ StepMove
    \/ StepLoadK
    \/ StepLoadNil
    \/ StepLoadBool
    \/ StepGetGlobal
    \/ StepSetGlobal
    \/ StepArith
    \/ StepRelational
    \/ StepCompare
    \/ StepConcat
    \/ StepNewTable
    \/ StepSetTable
    \/ StepFnProto
    \/ StepTest
    \/ StepJump
    \/ StepCall
    \/ StepReturn
    \/ StepInternalError
    \/ RunGC

Spec == Init /\ [][Next]_vars

(***************************************************************************)
(* The same machine on the corpus extended with the programs that recurse  *)
(* until the call stack is full.  Their runs are followed from the start,  *)
(* and also from the machine each of them is in when its call stack first  *)
(* holds DeepLevels frames: the turns up to there allocate nothing and     *)
(* end without error, so that machine is protected_step applied turn after *)
(* turn to init(p).                                                        *)
(***************************************************************************)
DeepLevels == 997

\* The machine after the turns that take a call stack of depth frames one
\* frame deeper.
RECURSIVE NextLevel(_, _)
NextLevel(vm, depth) ==
    IF Len(vm.call_stack) > depth THEN vm
    ELSE AndThen(protected_step(vm).vm, LAMBDA v : NextLevel(v, depth))

\* The machine after the turns that take a call stack of lo frames to hi
\* frames, by halves.
RECURSIVE RunToDepth(_, _, _)
RunToDepth(vm, lo, hi) ==
    IF lo >= hi THEN vm
    ELSE IF hi = lo + 1 THEN NextLevel(vm, lo)
    ELSE LET mid == (lo + hi) \div 2
         IN AndThen(RunToDepth(vm, lo, mid),
                    LAMBDA v : RunToDepth(v, mid, hi))

InitDeep ==
    \/ InitOver(Programs \cup DeepPrograms)
    \/ \E p \in DeepPrograms : InitAt(p, RunToDepth(init(p), 1, DeepLevels))

SpecDeep == InitDeep /\ [][Next]_vars

(***************************************************************************)
(* The mark phase, one call of mark_value at a time, on heaps of tables    *)
(* that refer to each other and on the heap of a closure stored in the     *)
(* table it captures.                                                      *)
(***************************************************************************)
MarkNodes == {1, 2, 3}

\* The heap of three tables where table ptr holds, under the key j, the
\* table j for every j of succ[ptr].
TableGraph(succ) ==
    LET h3 == alloc_table(alloc_table(alloc_table(NewHeap).heap).heap).heap
    IN [h3 EXCEPT !.objects =
           [ptr \in DOMAIN @ |->
               [@[ptr] EXCEPT !.data =
                   [k \in {Number(j) : j \in succ[ptr]} |-> Table(k.n)]]]]

\* The heap of  local t = {}  local f = function() return t end  t[1] = f
\* after the frame has returned: the table 1, the Closed upvalue 2 that owns
\* it, the closure 3 that captured the upvalue and is stored in the table.
ClosureGraph ==
    LET t == alloc_table(NewHeap)
        u == alloc_upvalue_object(t.heap, Closed(Table(t.ptr)))
        f == alloc_function(u.heap,
                 [name |-> "__anon_fn_0", constants |-> <<>>,
                  upvalues |-> <<u.ptr>>], 0, 0)
    IN [f.heap EXCEPT !.objects[t.ptr].data =
           [k \in {Number(1)} |-> Function(f.ptr)]]

\* The roots in the order mark_objects visits them: the globals, the value
\* stack (constant pools and frames are empty here).
MarkRoots(gs, stack) ==
    [i \in 1..Len(stack) + 1 |->
        IF i = 1 THEN gs[<<"g">>].ptr ELSE stack[i - 1].ptr]

\* The mark phase begins with the global g and the stack on the heap hp.
InitMarkAt(hp, g, stack) ==
    /\ module = "Empty"
    /\ func_meta = <<>>
    /\ call_stack = <<>>
    /\ value_stack = stack
    /\ globals = [name \in {<<"g">>} |-> g]
    /\ heap = hp
    /\ output = <<>>
    /\ run_state = "mark"
    /\ reported = <<>>
    /\ mark_pending = MarkRoots(globals, stack)

InitMark ==
    \/ \E succ \in [MarkNodes -> SUBSET MarkNodes], r \in MarkNodes :
           InitMarkAt(TableGraph(succ), Table(1), <<Table(r)>>)
    \/ \E g \in {Table(1), Function(3)} :
           InitMarkAt(ClosureGraph, g, <<>>)

\* mark_raw: whether the object at ptr is newly marked (not the null
\* pointer, not marked before).
mark_raw_Always(objects, ptr) == ptr # 0

mark_raw(objects, ptr) == ptr # 0 /\ ~objects[ptr].mark

\* The orders in which a loop can visit the addresses of ptrs (the entries
\* of a table are in a HashMap).
Orders(ptrs) ==
    {order \in [1..Cardinality(ptrs) -> ptrs] :
        \A i, j \in DOMAIN order : order[i] = order[j] => i = j}

\* mark_value on an address mark_raw refuses: the call returns.
MarkSkip ==
    /\ run_state = "mark"
    /\ mark_pending # <<>>
    /\ ~mark_raw(heap.objects, Head(mark_pending))
    /\ mark_pending' = Tail(mark_pending)
    /\ UNCHANGED <<module, func_meta, call_stack, value_stack, globals, heap,
                   output, run_state, reported>>

\* mark_value on an address mark_raw marks: its children are visited next.
MarkVisit ==
    /\ run_state = "mark"
    /\ mark_pending # <<>>
    /\ mark_raw(heap.objects, Head(mark_pending))
    /\ heap' = [heap EXCEPT !.objects[Head(mark_pending)].mark = TRUE]
    /\ \E order \in Orders(Children(heap.objects, Head(mark_pending))) :
           mark_pending' = order \o Tail(mark_pending)
    /\ UNCHANGED <<module, func_meta, call_stack, value_stack, globals,
                   output, run_state, reported>>

\* mark_objects returns.
MarkDone ==
    /\ run_state = "mark"
    /\ mark_pending = <<>>
    /\ run_state' = "marked"
    /\ UNCHANGED <<module, func_meta, call_stack, value_stack, globals, heap,
                   output, reported, mark_pending>>

NextMark ==
    \/ MarkSkip
    \/ MarkVisit
    \/ MarkDone

SpecMark == InitMark /\ [][NextMark]_vars /\ WF_vars(NextMark)

(***************************************************************************)
(* Properties.                                                             *)
(***************************************************************************)
\* The addresses reachable from ptrs through the fields of the objects.
RECURSIVE ReachableFrom(_, _)
ReachableFrom(objects, ptrs) ==
    LET more == ptrs \cup UNION {Children(objects, q) :
                                    q \in ptrs \cap DOMAIN objects}
    IN IF more = ptrs THEN ptrs ELSE ReachableFrom(objects, more)

\* The objects reachable from the roots: globals, the value stack, every
\* constant pool, the upvalue arrays of the frames on the call stack.
ReachableObjects ==
    ReachableFrom(heap.objects,
                  GlobalRefs(VM) \cup StackRefs(VM) \cup ConstantRefs(VM)
                      \cup FrameUpvalueRefs(VM)) \ {0}

\* C1: every object (string, table, function, upvalue) reachable from the
\* roots when a collection starts is allocated, is still allocated when the
\* sweep has returned and holds the same value; the roots themselves are
\* left as they were.
C1_GCKeepsReachable ==
    [][run_state = "gc" =>
          /\ run_state' # "ub"
          /\ \A ptr \in ReachableObjects :
                /\ ptr \in DOMAIN heap.objects
                /\ ptr \in DOMAIN heap'.objects
                /\ heap'.objects[ptr].kind = heap.objects[ptr].kind
                /\ heap'.objects[ptr].data = heap.objects[ptr].data
          /\ UNCHANGED <<globals, value_stack, call_stack, func_meta>>]_vars

\* A collection has run and swept an object while objects of all four kinds
\* were reachable and stayed.
C1_SweptAroundLive ==
    /\ run_state = "step"
    /\ heap.threshold > VM_THRESHOLD
    /\ \E ptr \in 1..(heap.next_ptr - 1) : ptr \notin DOMAIN heap.objects
    /\ \A k \in {"String", "Table", "Function", "UpValue"} :
           \E ptr \in ReachableObjects : heap.objects[ptr].kind = k

\* The upvalue objects that are Open on a stack index of [lo, hi).
OpenUpvaluesIn(objects, lo, hi) ==
    {ptr \in DOMAIN objects :
        /\ objects[ptr].kind = "UpValue"
        /\ objects[ptr].data.state = "Open"
        /\ lo <= objects[ptr].data.idx
        /\ objects[ptr].data.idx < hi}

\* After the step, no upvalue is Open on the window of a frame that the step
\* took off the call stack.
PoppedFramesClosed ==
    \A i \in (Len(call_stack') + 1)..Len(call_stack) :
        OpenUpvaluesIn(heap'.objects, call_stack[i].base_offset,
                       call_stack[i].base_offset + call_stack[i].reg_count)
            = {}

\* C2 as stated: after a frame has left the call stack, by whatever step, no
\* upvalue object is Open on a stack index of that frame's window.
C2_ClosedAfterPop == [][PoppedFramesClosed]_vars

\* C2 amended: after a frame is popped by Return, no upvalue object is Open
\* on a stack index of that frame's window (the frames the error path clears
\* keep their open upvalues).
C2_ClosedAfterReturn == [][run_state' # "error" => PoppedFramesClosed]_vars

\* A Return has popped a frame with a captured slot: its upvalue is Closed.
C2_ClosedByReturn ==
    /\ run_state # "error"
    /\ \E ptr \in DOMAIN heap.objects :
           /\ heap.objects[ptr].kind = "UpValue"
           /\ heap.objects[ptr].data.state = "Closed"

\* C3: within one frame activation there is at most one upvalue object per
\* captured slot, so two closures capturing the same slot hold the same
\* upvalue object.
C3_OneUpvaluePerSlot ==
    \A f \in 1..Len(call_stack) :
        \A i, j \in 1..Len(call_stack[f].out_upvalues) :
            call_stack[f].out_upvalues[i][1] = call_stack[f].out_upvalues[j][1]
                => i = j

\* C4: when the run loop has ended on the return of _start, the call stack is
\* empty and the value stack is truncated to length 0.
C4_StacksEmptyAtExit ==
    run_state = "exited" => call_stack = <<>> /\ value_stack = <<>>

\* C5: at the first instruction of a script function, the stack indices the
\* caller's Moves marshalled the arguments into are registers 0..argc-1 of
\* the new frame, and parameter slot i holds the value of argument i.
C5_ArgsInCalleeWindow ==
    (run_state = "step" /\ Len(call_stack) >= 2 /\ CurrentFrame.pc = 0) =>
        LET caller == call_stack[Len(call_stack) - 1]
            call == func_meta[caller.func_name].bytecode[caller.pc]
        IN call.op = "Call" =>
               \A i \in 0..(call.argc - 1) :
                   /\ caller.base_offset + call.func_reg + 1 + i
                          = CurrentFrame.base_offset + i
                   /\ value_stack[CurrentFrame.base_offset + i + 1]
                          = value_stack[caller.base_offset + call.func_reg
                                        + 1 + i + 1]

\* C6: in S5, once make has returned, the upvalue of the closure it returned
\* is Closed on 42, the value of n when the return was reached.
C6_S5UpvalueHolds42 ==
    module = "S5" =>
        \A ptr \in DOMAIN heap.objects :
            (heap.objects[ptr].kind = "UpValue"
                 /\ heap.objects[ptr].data.state = "Closed")
                => heap.objects[ptr].data.value = Number(42)

\* C7: the run of S4 is never at an instruction whose execution leaves the
\* machine as it was (from such a state the loop is never left and the run
\* never ends).
C7_S4LoopAdvances ==
    (module = "S4" /\ run_state = "step") => protected_step(VM).vm # VM

\* C8: the first frame starts at 0, every other frame starts where the frame
\* below it ends, so the windows of two frames are disjoint with the newer
\* one above; the sentinel frame of a native call starts at the end of the
\* caller's window too.
C8_FrameWindowsStacked ==
    /\ call_stack # <<>> => call_stack[1].base_offset = 0
    /\ \A i \in 2..Len(call_stack) :
           call_stack[i].base_offset
               = call_stack[i - 1].base_offset + call_stack[i - 1].reg_count
    /\ \A i, j \in 1..Len(call_stack) :
           i < j => call_stack[i].base_offset + call_stack[i].reg_count
                        <= call_stack[j].base_offset
    /\ (Fetch({"Call"}) /\ get_reg(VM, Instr.func_reg).t = "CFunc") =>
           make_stack_frame(AddPc(VM, 1), <<"__native_", Instr.func_reg>>, 0,
                            <<Instr.func_reg>>, <<>>).frame.base_offset
               = CurrentFrame.base_offset + CurrentFrame.reg_count

\* A script function is running on a frame pushed above its caller's.
C8_TwoFrames ==
    /\ run_state = "step"
    /\ Len(call_stack) >= 2
    /\ call_stack[2].base_offset > 0

\* C9: the call stack never holds more than MAX_CALL_STACK frames, the
\* sentinel frame of a native call included; a Call executed on a call stack
\* of MAX_CALL_STACK frames raises StackOverflow and pushes no frame,
\* whatever the callee.
C9_CallStackBounded ==
    [][/\ Len(call_stack') <= MAX_CALL_STACK
       /\ (Fetch({"Call"}) /\ Len(call_stack) >= MAX_CALL_STACK) =>
              /\ run_state' = "error"
              /\ reported'[1].kind = "StackOverflow"
              /\ call_stack' = <<>>
       /\ (Fetch({"Call"}) /\ get_reg(VM, Instr.func_reg).t = "CFunc"
               /\ run_state' # "error") =>
              Len(call_stack) + 1 <= MAX_CALL_STACK]_vars

\* The Call of a native function on a full call stack raised StackOverflow.
C9_NativeOverflow ==
    /\ module = "RecNative"
    /\ run_state = "error"
    /\ reported[1].kind = "StackOverflow"
    /\ reported[1].stack_depth = MAX_CALL_STACK
    /\ reported[1].func_name = "__local_fn_f_0"
    /\ reported[1].pc = 3

\* C10: a turn whose instruction returns an error reports that error, clears
\* the call stack and ends the loop; nothing is executed after it.
C10_ErrorEndsRun ==
    [][/\ (run_state = "step" /\ protected_step(VM).status = "error") =>
              /\ run_state' = "error"
              /\ reported' = protected_step(VM).error
              /\ call_stack' = <<>>
       /\ run_state # "error"]_vars

\* An instruction has failed inside a called function: the error is
\* reported and the two frames are gone.
C10_ErrorReported ==
    /\ run_state = "error"
    /\ Len(reported) = 1
    /\ reported[1].kind = "UndefinedVariable"
    /\ reported[1].stack_depth = 2
    /\ call_stack = <<>>

\* C11: string intern uniqueness.  In every state each entry of the string
\* pool refers to an allocated string object holding the entry's text, no
\* two allocated string objects hold the same text, and alloc_string of a
\* text already in the pool returns the pooled reference and leaves the
\* heap as it is.
C11_InternUnique ==
    /\ \A text \in DOMAIN heap.string_pool :
           LET ptr == heap.string_pool[text]
           IN /\ ptr \in DOMAIN heap.objects
              /\ heap.objects[ptr].kind = "String"
              /\ heap.objects[ptr].data = text
              /\ alloc_string(heap, text) = [heap |-> heap, ptr |-> ptr]
    /\ \A p, q \in DOMAIN heap.objects :
           (/\ heap.objects[p].kind = "String"
            /\ heap.objects[q].kind = "String"
            /\ heap.objects[p].data = heap.objects[q].data) => p = q

\* C11 witness: a text whose string object was reclaimed by a sweep has
\* been interned again, in a new object allocated after the sweep.
C11_InternedAgainAfterSweep ==
    /\ module = "Intern"
    /\ {<<BigAtom, BigAtom>>, <<BigAtom, "y">>}
           \subseteq DOMAIN heap.string_pool
    /\ heap.string_pool[<<BigAtom, BigAtom>>]
           > heap.string_pool[<<BigAtom, "y">>]
    /\ (heap.string_pool[<<BigAtom, "y">>] - 1) \notin DOMAIN heap.objects

\* The sum of the sizes of the objects on the object list of hp.
ListedBytes(hp) ==
    SumSizes(hp.objects, {hp.all_objects[i] : i \in 1..Len(hp.all_objects)})

\* C12: total size accounting.  After every sweep total_allocated is the sum
\* of the sizes of the objects that remain on the object list.
C12_SweepKeepsAccount ==
    [][run_state = "gc" => heap'.total_allocated = ListedBytes(heap')]_vars

\* C12 witness: a collection has run (the threshold was doubled), an object
\* was reclaimed, and total_allocated is the sum over the remaining list.
C12_AccountAfterSweep ==
    /\ module = "Oom"
    /\ run_state = "step"
    /\ heap.threshold > VM_THRESHOLD
    /\ \E q \in 1..(heap.next_ptr - 1) : q \notin DOMAIN heap.objects
    /\ heap.total_allocated = ListedBytes(heap)
    /\ heap.total_allocated > 0

\* An allocation of size bytes on hp is refused and changes nothing when
\* it would pass the hard limit, and otherwise puts the new object at the
\* head of the object list and adds size to total_allocated.
AllocObeysCeiling(hp, size) ==
    LET r == alloc_raw_object(hp, <<>>, "Table", size)
    IN IF hp.total_allocated + size > HARD_MEMORY_LIMIT
       THEN r.ptr = 0 /\ r.heap = hp
       ELSE /\ r.ptr # 0
            /\ r.heap.all_objects = <<r.ptr>> \o hp.all_objects
            /\ r.heap.objects[r.ptr].size = size
            /\ r.heap.total_allocated = hp.total_allocated + size
            /\ r.heap.string_pool = hp.string_pool

\* C13: hard memory ceiling.  total_allocated never exceeds
\* HARD_MEMORY_LIMIT; an allocation that would pass the limit is refused
\* (also one byte past it, and not at the limit itself) and leaves the
\* object list, the string pool and total_allocated unchanged, so a turn
\* that reports OutOfMemory leaves them unchanged; a turn that allocates
\* puts the new objects at the head of the object list and adds exactly
\* their sizes to total_allocated.
C13_HardCeiling ==
    [][/\ heap.total_allocated <= HARD_MEMORY_LIMIT
       /\ heap'.total_allocated <= HARD_MEMORY_LIMIT
       /\ \A size \in {SizeOfGCTable,
                        HARD_MEMORY_LIMIT - heap.total_allocated,
                        HARD_MEMORY_LIMIT - heap.total_allocated + 1} :
              AllocObeysCeiling(heap, size)
       /\ (reported' # reported /\ reported'[1].kind = "OutOfMemory") =>
              /\ heap'.all_objects = heap.all_objects
              /\ heap'.string_pool = heap.string_pool
              /\ heap'.total_allocated = heap.total_allocated
       /\ run_state = "step" =>
              LET old == heap.all_objects
                  new == heap'.all_objects
                  added == Len(new) - Len(old)
              IN /\ added >= 0
                 /\ SubSeq(new, added + 1, Len(new)) = old
                 /\ heap'.total_allocated =
                        heap.total_allocated
                        + SumSizes(heap'.objects,
                                   {new[i] : i \in 1..added})]_vars

\* C13 witness: the run has ended with OutOfMemory, on a heap more than
\* half full that the refused allocation of 512 MiB would have overfilled.
C13_AllocationRefused ==
    /\ module = "Oom"
    /\ run_state = "error"
    /\ reported[1].kind = "OutOfMemory"
    /\ 2 * heap.total_allocated > HARD_MEMORY_LIMIT
    /\ heap.total_allocated <= HARD_MEMORY_LIMIT

\* The scanner's results for the functions of every program: the lifetimes
\* and the allocation of each function, in the order of the module.
Scans ==
    [p \in Programs \cup DeepPrograms |->
        [i \in 1..Len(IRModule(p)) |->
            AndThen(scan_lifetimes(IRModule(p)[i]),
                    LAMBDA l : [func |-> IRModule(p)[i], lifetimes |-> l,
                                alloc |-> allocate_registers(
                                              IRModule(p)[i], l)])]]

\* Lifetime maps of up to AllocTemps temporaries above two locals: the
\* temporary %i is defined by instruction i + 1 (every instruction defines a
\* fresh one) and lives to any later instruction.
AllocTemps == 4
AllocatorCases ==
    UNION {
        {AndThen([v \in {Reg(i) : i \in 0..(n - 1)}
                          \cup {Slot(0), Slot(1)} |->
                     IF v.kind = "Slot" THEN [start |-> 0, end |-> 0]
                     ELSE [start |-> v.id + 1, end |-> ends[v.id]]],
                 LAMBDA l : [lifetimes |-> l,
                             alloc |-> allocate_registers(<<>>, l)])
         : ends \in {e \in [0..(n - 1) -> 1..(AllocTemps + 2)] :
                        \A i \in 0..(n - 1) : e[i] >= i + 1}}
        : n \in 0..AllocTemps}

\* Two temporaries of a scan whose lifetimes share an instruction.
Overlap(lifetimes, a, b) ==
    /\ a.kind = "Reg" /\ b.kind = "Reg" /\ a # b
    /\ lifetimes[a].start <= lifetimes[b].end
    /\ lifetimes[b].start <= lifetimes[a].end

TempsApart(scan) ==
    \A a, b \in DOMAIN scan.lifetimes :
        Overlap(scan.lifetimes, a, b) =>
            \/ scan.alloc.reg_map[a] - scan.alloc.reg_map[b] >= stride
            \/ scan.alloc.reg_map[b] - scan.alloc.reg_map[a] >= stride

\* C14: allocator non-overlap for temporaries.  For every function of the
\* loaded module, and for every lifetime map of AllocatorCases, two distinct
\* temporaries with overlapping lifetimes get physical indices at least
\* stride apart, also when an index comes from the free list.
C14_TempsApart ==
    /\ \A i \in 1..Len(Scans[module]) : TempsApart(Scans[module][i])
    /\ \A scan \in AllocatorCases : TempsApart(scan)

\* C14 witness: a function of the loaded module has two overlapping
\* temporaries, one of them in a register reused from the free list (a
\* third temporary was given the same register).
C14_ReusedBesideLive ==
    \E i \in 1..Len(Scans[module]) :
        LET scan == Scans[module][i]
        IN \E a, b, c \in DOMAIN scan.lifetimes :
               /\ Overlap(scan.lifetimes, a, b)
               /\ c.kind = "Reg" /\ c # a
               /\ scan.alloc.reg_map[c] = scan.alloc.reg_map[a]
               /\ scan.alloc.reg_map[a] - scan.alloc.reg_map[b] >= stride

(***************************************************************************)
(* Declaration of locals (frontend/ir/mod.rs).  local_variables maps a     *)
(* name to its slot.                                                       *)
(***************************************************************************)
\* decl_local: the slot is the number of names in the map, and the name
\* is inserted (an insert of a name already there replaces its slot).
decl_local(local_variables, name) ==
    [slot |-> Cardinality(DOMAIN local_variables),
     local_variables |->
         [n \in DOMAIN local_variables \cup {name} |->
             IF n = name THEN Cardinality(DOMAIN local_variables)
             ELSE local_variables[n]]]

\* The declarations of one function in order: generate_fn_decl_impl
\* declares every parameter with decl_local; a Declaration statement uses
\* the slot find_local gives for the name, and declares the name when there
\* is none.  acc holds local_variables and declared, the slot of every
\* variable created by decl_local, in order.
RECURSIVE DeclareLocals(_, _)
DeclareLocals(acc, decls) ==
    IF decls = <<>> THEN acc
    ELSE LET d == Head(decls)
         IN IF ~d.param /\ d.name \in DOMAIN acc.local_variables
            THEN DeclareLocals(acc, Tail(decls))
            ELSE LET r == decl_local(acc.local_variables, d.name)
                 IN DeclareLocals(
                        [local_variables |-> r.local_variables,
                         declared |-> Append(acc.declared, r.slot)],
                        Tail(decls))

\* The functions with up to MaxParams parameters and then up to MaxLocals
\* Declaration statements, over the names of LocalNames: the declared
\* variables and the allocation of the function.
MaxParams == 2
MaxLocals == 2
LocalNames == {"a", "b", "c"}
DeclCases ==
    {AndThen(
         DeclareLocals(
             [local_variables |-> <<>>, declared |-> <<>>],
             [i \in 1..Len(ps) |-> [param |-> TRUE, name |-> ps[i]]]
                 \o [i \in 1..Len(ls) |-> [param |-> FALSE, name |-> ls[i]]]),
         LAMBDA acc :
             [params |-> ps, locals |-> ls, declared |-> acc.declared,
              alloc |-> global_scan(
                            IRFunction("f",
                                <<IRBasicBlock(0, <<>>, IRReturn(<<Unit>>))>>,
                                {acc.local_variables[n] :
                                     n \in DOMAIN acc.local_variables},
                                <<>>, <<>>))])
     : ps \in UNION {[1..n -> LocalNames] : n \in 0..MaxParams},
       ls \in UNION {[1..n -> LocalNames] : n \in 0..MaxLocals}}

\* No temporary of a scan has a register below num_locals.
TempsAboveLocals(alloc) ==
    \A v \in DOMAIN alloc.reg_map :
        v.kind = "Reg" => alloc.reg_map[v] >= alloc.func_stack_info[1]

ScanInstrs == 3
ScanOperands == {Reg(0), Reg(1)}
InstrChoices ==
    {IRLoadImm(0, ImmFloat(1)), IRLoadLocal(0, Slot(0))}
        \cup {IRDrop(r) : r \in ScanOperands}
        \cup {IRStoreLocal(0, Slot(0), Reg(0)), IRCall(0, Reg(0), <<Reg(1)>>)}
LifetimeCases ==
    UNION {
        {AndThen(IRFunction("f",
                     <<IRBasicBlock(0,
                           [i \in 1..n |->
                               IF "dest" \in DOMAIN pick[i]
                               THEN [pick[i] EXCEPT !.dest = i - 1]
                               ELSE pick[i]],
                           IRReturn(<<ret>>))>>,
                     {0}, <<>>, <<>>),
                 LAMBDA func : [func |-> func,
                                lifetimes |-> scan_lifetimes(func)])
         : pick \in [1..n -> InstrChoices],
           ret \in ScanOperands \cup {Unit}}
        : n \in 0..ScanInstrs}

\* The instruction or terminator item defines or uses the variable v.
Mentions(item, v) ==
    \/ "dest" \in DOMAIN item /\ v = Reg(item.dest)
    \/ \E f \in DOMAIN item \cap
                  {"src", "dst", "src1", "src2", "name", "callee", "size_array",
                   "size_hash", "collection", "member", "value", "cond"} :
           item[f] = v
    \/ \E f \in DOMAIN item \cap {"args", "vals"} :
           \E i \in 1..Len(item[f]) : item[f][i] = v

\* The positions of the scan order of func that define or use v; a local's
\* definition at the head of the function is position 0.
MentionedAt(func, v) ==
    {i \in 1..Len(ScanOrder(func.basic_blocks)) :
        Mentions(ScanOrder(func.basic_blocks)[i], v)}
        \cup (IF v.kind = "Slot" THEN {0} ELSE {})

LifetimesMonotone(scan) ==
    \A v \in DOMAIN scan.lifetimes :
        /\ scan.lifetimes[v].start <= scan.lifetimes[v].end
        /\ \A i \in MentionedAt(scan.func, v) : scan.lifetimes[v].end >= i

LifetimeCasesMonotone == \A scan \in LifetimeCases : LifetimesMonotone(scan)

\* C16: lifetime monotonicity.  After the scan of a function (each function
\* of the loaded module, and each function of LifetimeCases) every
\* variable's lifetime has start <= end, and end is at least the position of
\* every definition and use of the variable, terminators counted.
C16_LifetimesMonotone ==
    /\ \A i \in 1..Len(Scans[module]) : LifetimesMonotone(Scans[module][i])
    /\ LifetimeCasesMonotone

\* C16 witness: in a function of the loaded module one register's lifetime
\* ends at its last use, after its definition, a second one's ends one
\* past the call that is its last use, and a local is used to the end.
C16_EndsAtLastUse ==
    \E i \in 1..Len(Scans[module]) :
        LET scan == Scans[module][i]
            Last(v) == CHOOSE m \in MentionedAt(scan.func, v) :
                           \A k \in MentionedAt(scan.func, v) : k <= m
        IN \E a, b, c \in DOMAIN scan.lifetimes :
               /\ a.kind = "Reg" /\ b.kind = "Reg" /\ c.kind = "Slot"
               /\ scan.lifetimes[a].start < scan.lifetimes[a].end
               /\ scan.lifetimes[a].end = Last(a)
               /\ scan.lifetimes[b].end = Last(b) + 1
               /\ scan.lifetimes[c].end = Last(c) /\ Last(c) > 0

\* The constant pools emit produces for the functions of every program,
\* before init interns the strings.
EmittedPools ==
    [p \in Programs \cup DeepPrograms |->
        [i \in 1..Len(IRModule(p)) |-> FuncMetadata(IRModule(p)[i]).constants]]

\* The emitter states after up to MaxConsts calls of add_constant on a new
\* emitter, with values of ConstValues.
MaxConsts == 3
ConstValues ==
    {Nil, Number(0), Number(1), TempString(<<"a">>), TempString(<<"1">>)}
RECURSIVE PoolsAfter(_)
PoolsAfter(n) ==
    IF n = 0
    THEN {[bytecode |-> <<>>, constants |-> <<>>, var_literals |-> <<>>]}
    ELSE PoolsAfter(n - 1)
             \cup {add_constant(st, v) : st \in PoolsAfter(n - 1),
                                         v \in ConstValues}
PoolCases == PoolsAfter(MaxConsts)

NoEqualEntries(constants) ==
    \A i, j \in 1..Len(constants) : i # j => constants[i] # constants[j]

\* add_constant(v) on every state of PoolCases: the pool keeps its entries
\* distinct, v is at the index returned, and a second add_constant(v)
\* returns the same index and leaves the pool as it is.
AddConstantTwice ==
    \A st \in PoolCases, v \in ConstValues :
        LET once == add_constant(st, v)
            twice == add_constant(once, v)
        IN /\ NoEqualEntries(once.constants)
           /\ once.constants[ConstIdx(once.constants, v) + 1] = v
           /\ ConstIdx(twice.constants, v) = ConstIdx(once.constants, v)
           /\ twice.constants = once.constants

\* C17: constant pool deduplication.  The pool of every function of the
\* loaded module has no two equal entries, as emitted and as interned by
\* init, and add_constant(v) called twice with equal v returns the same
\* index without growing the pool.
C17_PoolDeduplicated ==
    /\ \A i \in 1..Len(EmittedPools[module]) :
           NoEqualEntries(EmittedPools[module][i])
    /\ \A name \in DOMAIN func_meta :
           NoEqualEntries(func_meta[name].constants)
    /\ AddConstantTwice

\* C17 witness: a function of the loaded module loads the same constant at
\* two places of its bytecode, and its pool has other constants too.
C17_ConstantLoadedTwice ==
    \E name \in DOMAIN func_meta :
        LET code == func_meta[name].bytecode
        IN /\ Len(func_meta[name].constants) > 1
           /\ \E i, j \in 1..Len(code) :
                  /\ i < j
                  /\ code[i].op = "LoadK" /\ code[j].op = "LoadK"
                  /\ code[i].const_idx = code[j].const_idx

\* C18: native call arguments.  When Call(func_reg, argc, _) is about to
\* invoke print, register i of the sentinel frame (which make_stack_frame
\* puts at the stack top) lies inside the value stack and holds the value
\* the caller's Move placed in register func_reg + 1 + i, for every
\* i < argc.
C18_PrintReadsArguments ==
    (/\ run_state = "step" /\ call_stack # <<>>
     /\ CurrentFrame.pc < Len(Bytecode)
     /\ Instr.op = "Call"
     /\ RegsInBounds(VM, {Instr.func_reg})
     /\ ~CallStackFull(VM)
     /\ get_reg(VM, Instr.func_reg).t = "CFunc")
        => \A i \in 0..(Instr.argc - 1) :
               /\ get_actual_stack_top(VM) + i < Len(value_stack)
               /\ value_stack[get_actual_stack_top(VM) + i + 1]
                      = get_reg(VM, Instr.func_reg + 1 + i)

\* func_meta has an entry for every function of the module, _start
\* included, the bytecode of _start is not empty, and no constant is a
\* TempString.
MetadataLoaded ==
    /\ \A i \in 1..Len(IRModule(module)) :
           IRModule(module)[i].name \in DOMAIN func_meta
    /\ "_start" \in DOMAIN func_meta
    /\ func_meta["_start"].bytecode # <<>>
    /\ \A name \in DOMAIN func_meta :
           \A i \in 1..Len(func_meta[name].constants) :
               func_meta[name].constants[i].t # "TempString"

\* The call stack is the entry frame alone: _start at pc 0 and base 0, with
\* no return destination.
EntryFrameOnly ==
    /\ Len(call_stack) = 1
    /\ call_stack[1].func_name = "_start"
    /\ call_stack[1].pc = 0
    /\ call_stack[1].base_offset = 0
    /\ call_stack[1].ret_dest = <<>>

\* C19: VM initialization.  After init (the first state of a run) func_meta
\* has an entry for every IR function including _start, the bytecode of
\* _start is not empty, no constant of any pool is a TempString, and the
\* call stack holds exactly the entry frame; the run leaves func_meta so.
C19_AfterInit == MetadataLoaded /\ EntryFrameOnly /\ []MetadataLoaded

\* C19 witness: the machine right after init of a module with a second
\* function and an interned string constant, the entry frame's registers
\* reserved on the value stack.
C19_InitOfClosureProgram ==
    /\ EntryFrameOnly /\ run_state = "step" /\ output = <<>>
    /\ Len(value_stack) = func_meta["_start"].max_stack_size
    /\ \E name \in DOMAIN func_meta :
           /\ name # "_start"
           /\ \E i \in 1..Len(func_meta["_start"].constants) :
                  /\ func_meta["_start"].constants[i].t = "String"
                  /\ heap.objects[func_meta["_start"].constants[i].ptr].data
                         = <<"@" \o name>>

\* The number of opcodes emitted for the first k blocks of func: the pc of
\* the first opcode of block k + 1.
OpcodesThrough(func, reg_map, k) ==
    Len(emit([func EXCEPT !.basic_blocks = SubSeq(@, 1, k)], reg_map).bytecode)

\* The pc of the first opcode emitted for the block of func with this id.
FirstOpcodeOf(func, reg_map, id) ==
    OpcodesThrough(func, reg_map,
        (CHOOSE k \in 1..Len(func.basic_blocks) :
             func.basic_blocks[k].id = id) - 1)

\* Every Jump emitted for a terminator of func lands, by pc + offset, on the
\* first opcode of its target block.  code[pc + 1] is the opcode at pc.
JumpsResolved(func) ==
    LET reg_map == global_scan(func).reg_map
        code == emit(func, reg_map).bytecode
    IN \A k \in 1..Len(func.basic_blocks) :
           LET t == func.basic_blocks[k].terminator
               end == OpcodesThrough(func, reg_map, k)
           IN CASE t.term = "Jump" ->
                       /\ code[end].op = "Jump"
                       /\ (end - 1) + code[end].offset
                              = FirstOpcodeOf(func, reg_map, t.target)
                [] t.term = "Branch" ->
                       /\ code[end - 2].op = "Test"
                       /\ code[end - 1].op = "Jump" /\ code[end].op = "Jump"
                       /\ (end - 2) + code[end - 1].offset
                              = FirstOpcodeOf(func, reg_map, t.br_true)
                       /\ (end - 1) + code[end].offset
                              = FirstOpcodeOf(func, reg_map, t.br_false)
                [] OTHER -> TRUE

JumpsResolvedIn ==
    [p \in Programs \cup DeepPrograms |->
        \A i \in 1..Len(IRModule(p)) : JumpsResolved(IRModule(p)[i])]

\* C20: jump target resolution.  In every function of the loaded module the
\* Jump emitted for Jump(b) reaches the first opcode of block b, the two
\* Jumps emitted after the Test of a Branch reach its true and its false
\* block, and no Jump of the loaded bytecode has the placeholder offset 0.
C20_JumpsResolved ==
    /\ JumpsResolvedIn[module]
    /\ \A name \in DOMAIN func_meta :
           \A i \in 1..Len(func_meta[name].bytecode) :
               func_meta[name].bytecode[i].op = "Jump"
                   => func_meta[name].bytecode[i].offset # 0

\* C21: Call/Return protocol.  A Call of a script function at caller pc p
\* with function register r sets the caller's pc to p + 1 and pushes the
\* callee frame above it; the Return with one value that ends the callee
\* pops its frame, stores the value in caller register r, truncates the
\* value stack to the popped frame's base_offset, and leaves the caller at
\* p + 1 (the instruction after that Call) with every other register as it
\* was.
C21_CallReturnProtocol ==
    [][/\ (/\ Fetch({"Call"})
            /\ RegsInBounds(VM, {Instr.func_reg})
            /\ get_reg(VM, Instr.func_reg).t = "Function"
            /\ run_state' \in {"step", "gc"})
               => /\ Len(call_stack') = Len(call_stack) + 1
                  /\ SubSeq(call_stack', 1, Len(call_stack))
                         = [call_stack EXCEPT ![Len(call_stack)].pc = @ + 1]
                  /\ call_stack'[Len(call_stack')].pc = 0
                  /\ call_stack'[Len(call_stack')].ret_dest
                         = <<Instr.func_reg>>
       /\ (/\ Fetch({"Return"})
            /\ Instr.count = 1
            /\ Len(call_stack) >= 2
            /\ run_state' \in {"step", "gc"})
               => LET caller == call_stack[Len(call_stack) - 1]
                      call == func_meta[caller.func_name].bytecode[caller.pc]
                      r == CurrentFrame.ret_dest[1]
                  IN /\ call.op = "Call" /\ call.func_reg = r
                     /\ call_stack'
                            = SubSeq(call_stack, 1, Len(call_stack) - 1)
                     /\ Len(value_stack') = CurrentFrame.base_offset
                     /\ value_stack'[caller.base_offset + r + 1]
                            = value_stack[CurrentFrame.base_offset
                                          + Instr.start + 1]
                     /\ \A i \in 1..Len(value_stack') :
                            i # caller.base_offset + r + 1
                                => value_stack'[i] = value_stack[i]]_vars

\* C21 witness: a script function has returned a closure to _start: the
\* caller is alone on the call stack, past a Call whose function register
\* now holds a function other than any the caller itself instantiates, and
\* the value stack is back to the caller's window.
C21_ReturnedToCaller ==
    /\ run_state = "step" /\ Len(call_stack) = 1 /\ CurrentFrame.pc > 0
    /\ Len(value_stack) = CurrentFrame.base_offset + CurrentFrame.reg_count
    /\ LET call == Bytecode[CurrentFrame.pc]
       IN /\ call.op = "Call"
          /\ get_reg(VM, call.func_reg).t = "Function"
          /\ heap.objects[get_reg(VM, call.func_reg).ptr].data.name
                 \notin {func_meta["_start"].child_protos[i] :
                            i \in 1..Len(func_meta["_start"].child_protos)}

\* C22: native call result slots.  After a Call of print (which produces no
\* value) that expects retc results, the sentinel frame is gone, the caller
\* is at the next instruction, the value stack ends at the caller's stack
\* top, and every result slot func_reg + i, i < retc, holds Nil.
C22_NativeResultSlots ==
    [][(/\ Fetch({"Call"})
        /\ RegsInBounds(VM, {Instr.func_reg})
        /\ get_reg(VM, Instr.func_reg).t = "CFunc"
        /\ run_state' \in {"step", "gc"})
           => /\ call_stack' = [call_stack EXCEPT ![Len(call_stack)].pc = @ + 1]
              /\ Len(value_stack') = get_actual_stack_top(VM)
              /\ \A i \in 0..(Instr.retc - 1) :
                     value_stack'[CurrentFrame.base_offset + Instr.func_reg
                                  + i + 1] = Nil]_vars

\* For every function of every program, the pcs of the Return opcodes
\* emitted for the terminator Return(Unit), with which the generator closes
\* a body that ends without a return statement.
UnitReturnPcs ==
    [p \in Programs \cup DeepPrograms |->
        [name \in {IRModule(p)[i].name : i \in 1..Len(IRModule(p))} |->
            LET func == IRModule(p)[CHOOSE i \in 1..Len(IRModule(p)) :
                                       IRModule(p)[i].name = name]
                reg_map == global_scan(func).reg_map
            IN {OpcodesThrough(func, reg_map, k) - 1 :
                   k \in {k \in 1..Len(func.basic_blocks) :
                             func.basic_blocks[k].terminator
                                 = IRReturn(<<Unit>>)}}]]

\* C23: a function whose body ends without a return statement returns nil:
\* when the Return that closes such a body hands control back, the caller's
\* destination register holds Nil (not a local or parameter of the callee,
\* nor a function object).
C23_FallOffReturnsNil ==
    [][(/\ Fetch({"Return"})
        /\ Len(call_stack) >= 2
        /\ CurrentFrame.pc \in UnitReturnPcs[module][CurrentFrame.func_name]
        /\ run_state' \in {"step", "gc"})
           => value_stack'[call_stack[Len(call_stack) - 1].base_offset
                           + CurrentFrame.ret_dest[1] + 1] = Nil]_vars

\* C24: the out_upvalues list of every frame on the call stack is sorted by
\* strictly increasing slot, in whatever order the child closures captured
\* the frame's locals (so that the binary search for a captured slot finds
\* it).
C24_OutUpvaluesSorted ==
    \A f \in 1..Len(call_stack) :
        \A i, j \in 1..Len(call_stack[f].out_upvalues) :
            i < j => call_stack[f].out_upvalues[i][1]
                         < call_stack[f].out_upvalues[j][1]

\* The k-th FnProto instruction of func, in emission order, and the k-th
\* FnProto opcode of its bytecode (emit_instr lowers each FnProto
\* instruction to one FnProto opcode): the opcode's proto_idx selects, in
\* the function's sub_functions list, the prototype the instruction names.
ProtoIndexAgrees(func) ==
    LET protos == SelectSeq(ScanOrder(func.basic_blocks),
                      LAMBDA item : "op" \in DOMAIN item
                                        /\ item.op = "FnProto")
        ops == SelectSeq(FuncMetadata(func).bytecode,
                   LAMBDA opcode : opcode.op = "FnProto")
    IN /\ Len(ops) = Len(protos)
       /\ \A k \in 1..Len(protos) :
              /\ ops[k].proto_idx < Len(func.sub_functions)
              /\ func.sub_functions[ops[k].proto_idx + 1]
                     = protos[k].func_proto.name

ProtoIndexAgreesIn ==
    [p \in Programs \cup DeepPrograms |->
        \A i \in 1..Len(IRModule(p)) : ProtoIndexAgrees(IRModule(p)[i])]

\* C25: prototype index agreement.  In every function F of the loaded
\* module, the opcode emitted for an IR FnProto of prototype P has a
\* proto_idx with F.child_protos[proto_idx] = P.
C25_ProtoIndexAgrees == ProtoIndexAgreesIn[module]

\* C26: upvalue index agreement.  When FnProto creates a closure, for every
\* descriptor of the closure's IR function, numbered slot by the IR
\* generator, the closure's captured upvalue at index slot is the upvalue of
\* that descriptor: for a local of the instantiating frame, the upvalue open
\* on that local's stack slot (or the one already exported for it); for an
\* upvalue of the instantiating frame, that frame's upvalue of that index.
C26_UpvalueIndexAgrees ==
    [][(/\ Fetch({"FnProto"})
        /\ run_state' \in {"step", "gc"})
           => LET new == value_stack'[CurrentFrame.base_offset
                                      + Instr.dest + 1]
                  closure == heap'.objects[new.ptr].data
                  descriptors ==
                      UNION {{IRModule(module)[k].upvalues[i] :
                                 i \in 1..Len(IRModule(module)[k].upvalues)} :
                             k \in {n \in 1..Len(IRModule(module)) :
                                       IRModule(module)[n].name
                                           = closure.name}}
              IN /\ new.t = "Function"
                 /\ Len(closure.upvalues) = Cardinality(descriptors)
                 /\ \A d \in descriptors :
                        /\ d.slot < Len(closure.upvalues)
                        /\ LET captured == closure.upvalues[d.slot + 1]
                           IN IF d.ty = "LocalVar"
                              THEN heap'.objects[captured].data
                                       = Open(CurrentFrame.base_offset
                                              + d.idx)
                              ELSE captured
                                       = CurrentFrame.upvalues[d.idx + 1]]_vars

(***************************************************************************)
(* Resolution of names (frontend/ir/mod.rs).  function_contexts is the     *)
(* stack of the functions being generated, outermost first; a context      *)
(* holds local_variables, name -> slot, and upvalues, name -> IRUpVal.     *)
(***************************************************************************)
\* open_function: a context with no local and no upvalue goes on the stack.
open_function(function_contexts) ==
    Append(function_contexts, [local_variables |-> <<>>, upvalues |-> <<>>])

add_upval_SlotZero(function_contexts, func_idx, name, ty, parent_slot) ==
    LET ctx == function_contexts[func_idx + 1]
        uv == [slot |-> 0, ty |-> ty, idx |-> parent_slot]
    IN [contexts |->
            [function_contexts EXCEPT ![func_idx + 1].upvalues =
                [n \in DOMAIN ctx.upvalues \cup {name} |->
                    IF n = name THEN uv ELSE ctx.upvalues[n]]],
        uv |-> uv]

\* add_upval_to_context: the slot is the number of upvalues of the context;
\* ty and parent_slot are the IRUpValType and its payload.
add_upval_to_context(function_contexts, func_idx, name, ty, parent_slot) ==
    LET ctx == function_contexts[func_idx + 1]
        uv == [slot |-> Cardinality(DOMAIN ctx.upvalues), ty |-> ty,
               idx |-> parent_slot]
    IN [contexts |->
            [function_contexts EXCEPT ![func_idx + 1].upvalues =
                [n \in DOMAIN ctx.upvalues \cup {name} |->
                    IF n = name THEN uv ELSE ctx.upvalues[n]]],
        uv |-> uv]

\* var_scope_impl: the scope of name seen from the context func_idx, and
\* the contexts with the upvalues the resolution registered.
RECURSIVE var_scope_impl(_, _, _)
var_scope_impl(function_contexts, func_idx, name) ==
    LET current_context == function_contexts[func_idx + 1]
        Global == [contexts |-> function_contexts,
                   scope |-> [kind |-> "Global"]]
    IN IF name \in DOMAIN current_context.local_variables
       THEN [contexts |-> function_contexts,
             scope |-> [kind |-> "Local",
                        slot |-> current_context.local_variables[name]]]
       ELSE IF name \in DOMAIN current_context.upvalues
       THEN [contexts |-> function_contexts,
             scope |-> [kind |-> "UpVal",
                        uv |-> current_context.upvalues[name]]]
       ELSE IF func_idx > 0
       THEN LET parent == var_scope_impl(function_contexts, func_idx - 1,
                                         name)
            IN IF parent.scope.kind = "Local"
               THEN LET r == add_upval_to_context(parent.contexts, func_idx,
                                 name, "LocalVar", parent.scope.slot)
                    IN [contexts |-> r.contexts,
                        scope |-> [kind |-> "UpVal", uv |-> r.uv]]
               ELSE IF parent.scope.kind = "UpVal"
               THEN LET r == add_upval_to_context(parent.contexts, func_idx,
                                 name, "UpVal", parent.scope.uv.slot)
                    IN [contexts |-> r.contexts,
                        scope |-> [kind |-> "UpVal", uv |-> r.uv]]
               ELSE Global
       ELSE Global

\* One step of the generator on the innermost function: the opening of a
\* nested function, a Declaration of name (the slot find_local gives, or
\* decl_local), or a use of name (var_scope).
GenStep(function_contexts, item) ==
    LET last == Len(function_contexts)
    IN CASE item.op = "open" -> open_function(function_contexts)
         [] item.op = "decl" ->
                IF item.name \in DOMAIN function_contexts[last].local_variables
                THEN function_contexts
                ELSE [function_contexts EXCEPT ![last].local_variables =
                         decl_local(@, item.name).local_variables]
         [] item.op = "use" ->
                var_scope_impl(function_contexts, last - 1,
                               item.name).contexts

\* The contexts after the first i steps of a generator run.
RECURSIVE ContextsAfter(_, _)
ContextsAfter(run, i) ==
    IF i = 0 THEN <<>>
    ELSE GenStep(ContextsAfter(run, i - 1), run[i])

\* The generator runs that open functions nested to depth MaxDepth (the
\* chunk at depth 0 included), each with the declarations and uses of one
\* of FunctionBodies before the next function opens.
MaxDepth == 2
FunctionBodies ==
    LET decl(n) == [op |-> "decl", name |-> n]
        use(n) == [op |-> "use", name |-> n]
    IN {<<>>, <<decl("x")>>, <<decl("y"), decl("x")>>, <<use("x")>>,
        <<use("y"), use("x")>>, <<use("x"), decl("x")>>,
        <<decl("y"), use("y"), use("x")>>}
RECURSIVE RunOf(_, _)
RunOf(bodies, depth) ==
    IF depth < 0 THEN <<>>
    ELSE RunOf(bodies, depth - 1) \o <<[op |-> "open"]>> \o bodies[depth]
GenRuns == {RunOf(bodies, MaxDepth) : bodies \in [0..MaxDepth -> FunctionBodies]}

\* The depth of the innermost function, below depth d, that has name as a
\* local; -1 when there is none.
LocalDepth(function_contexts, name, d) ==
    LET depths == {k \in 0..(d - 1) :
                      name \in DOMAIN function_contexts[k + 1].local_variables}
    IN IF depths = {} THEN -1
       ELSE CHOOSE k \in depths : \A other \in depths : other <= k

\* The upvalue slots of a context are 0..count-1, each taken once.
SlotsDense(upvalues) ==
    /\ {upvalues[n].slot : n \in DOMAIN upvalues}
           = 0..(Cardinality(DOMAIN upvalues) - 1)
    /\ \A n1, n2 \in DOMAIN upvalues :
           upvalues[n1].slot = upvalues[n2].slot => n1 = n2

\* A use of name at depth d = Len(before) - 1 that resolves to a local at
\* depth k < d has threaded the name through the contexts k+1..d.
Threaded(before, name, after) ==
    LET d == Len(before) - 1
        k == LocalDepth(before, name, d)
    IN (name \notin DOMAIN before[d + 1].local_variables /\ k >= 0)
          => /\ \A j \in (k + 1)..d : name \in DOMAIN after[j + 1].upvalues
             /\ after[k + 2].upvalues[name].ty = "LocalVar"
             /\ after[k + 2].upvalues[name].idx
                    = before[k + 1].local_variables[name]
             /\ \A j \in (k + 2)..d :
                    /\ after[j + 1].upvalues[name].ty = "UpVal"
                    /\ after[j + 1].upvalues[name].idx
                           = after[j].upvalues[name].slot
             /\ \A j \in 0..d : SlotsDense(after[j + 1].upvalues)
             /\ \A j \in 0..d :
                    after[j + 1].local_variables
                        = before[j + 1].local_variables
             /\ \A j \in 0..k : after[j + 1] = before[j + 1]
             /\ var_scope_impl(after, d, name).contexts = after
             /\ var_scope_impl(after, d, name).scope
                    = [kind |-> "UpVal", uv |-> after[d + 1].upvalues[name]]

GenRunsThreaded ==
    \A run \in GenRuns :
        \A i \in 1..Len(run) :
            run[i].op = "use"
                => Threaded(ContextsAfter(run, i - 1), run[i].name,
                            ContextsAfter(run, i))

\* C27: upvalue resolution threading.  In every generator run, a use of a
\* name at depth d that resolves to a local of the function at depth k < d
\* leaves every context of depths k+1..d with one upvalue entry for the
\* name: the one at depth k+1 is a LocalVar of the local's slot, each
\* deeper one an UpVal of the slot of its parent's entry; the upvalue slots
\* of every context are 0..count-1 without gap or duplicate; and resolving
\* the name again adds nothing.  So are the upvalue slots of every function
\* of the loaded module.
C27_UpvaluesThreaded ==
    /\ \A k \in 1..Len(IRModule(module)) :
           LET upvalues == IRModule(module)[k].upvalues
           IN {upvalues[i].slot : i \in 1..Len(upvalues)}
                  = 0..(Len(upvalues) - 1)
    /\ GenRunsThreaded

\* C27 witness: a use at depth 2 of a local of depth 0 that registered an
\* upvalue in both nested contexts, each of which already had another one.
GenRunThreadedTwoLevels ==
    \E run \in GenRuns :
        \E i \in 1..Len(run) :
            LET before == ContextsAfter(run, i - 1)
                after == ContextsAfter(run, i)
            IN /\ run[i].op = "use" /\ Len(before) = 3
               /\ LocalDepth(before, run[i].name, 2) = 0
               /\ \A j \in 2..3 :
                      /\ run[i].name \notin DOMAIN before[j].upvalues
                      /\ after[j].upvalues[run[i].name].slot = 1
\* The upvalue descriptors of the nested contexts at the end of the runs.
ThreadedDescriptors ==
    UNION {{LET after == ContextsAfter(run, Len(run))
            IN {after[j].upvalues[n] : n \in DOMAIN after[j].upvalues} :
               j \in 2..(MaxDepth + 1)} :
           run \in GenRuns}
\* ... and the closure of the loaded program has two upvalues, which are the
\* descriptors such a use registers.
C27_ThreadedTwoLevels ==
    /\ GenRunThreadedTwoLevels
    /\ \E k \in 1..Len(IRModule(module)) :
           LET upvalues == IRModule(module)[k].upvalues
           IN /\ Len(upvalues) = 2
              /\ {upvalues[i] : i \in 1..Len(upvalues)} \in ThreadedDescriptors

(***************************************************************************)
(* Statements of the IR generator (frontend/ir/mod.rs).  gen holds         *)
(* active_block (whether the current function has an open basic block),    *)
(* instructions (how many were emitted), blocks (how many were closed),    *)
(* errors (the error list) and panicked (a panic!, unimplemented! or       *)
(* failed expect unwound the generator: nothing after it runs).            *)
(***************************************************************************)
\* emit: the instruction goes to the active block; without one, a panic.
emit_ir(gen) ==
    IF gen.panicked THEN gen
    ELSE IF gen.active_block THEN [gen EXCEPT !.instructions = @ + 1]
    ELSE [gen EXCEPT !.panicked = TRUE]

\* close_bb: the active block is closed; without one, a panic.
close_bb(gen) ==
    IF gen.panicked THEN gen
    ELSE IF gen.active_block
    THEN [gen EXCEPT !.active_block = FALSE, !.blocks = @ + 1]
    ELSE [gen EXCEPT !.panicked = TRUE]

emit_err(gen, err) ==
    IF gen.panicked THEN gen ELSE [gen EXCEPT !.errors = Append(@, err)]

\* generate_return_stmt with values literals (each one LoadImm).
RECURSIVE generate_return_stmt(_, _)
generate_return_stmt(gen, values) ==
    IF values > 0 THEN generate_return_stmt(emit_ir(gen), values - 1)
    ELSE close_bb(IF ~gen.active_block
                  THEN emit_err(gen, "MultipleReturnStatements")
                  ELSE gen)

\* generate_assignment of a literal to lhs: an identifier, with the scope
\* var_scope gives for it, or an expression that is no lvalue.
generate_assignment(gen, lhs) ==
    LET src == emit_ir(gen)
    IN CASE lhs = "Local" -> emit_ir(src)
         [] lhs = "Global" -> emit_ir(emit_ir(src))
         [] lhs = "UpVal" ->
                [emit_err(src, "UndefinedVariable") EXCEPT !.panicked = TRUE]
         [] lhs = "Literal" -> emit_err(src, "InvalidLValue")

\* generate_stmt: a ReturnStmt, or an ExprStatement of an assignment, whose
\* result is dropped.
generate_stmt(gen, stmt) ==
    IF stmt.kind = "ReturnStmt" THEN generate_return_stmt(gen, stmt.values)
    ELSE emit_ir(generate_assignment(gen, stmt.lhs))

\* generate_module: _start opens a block, the statements are generated in
\* order, and a block still open is closed with a return.
RECURSIVE GenerateBody(_, _)
GenerateBody(gen, body) ==
    IF body = <<>> THEN gen
    ELSE GenerateBody(generate_stmt(gen, Head(body)), Tail(body))
generate_module(body) ==
    LET gen == GenerateBody([active_block |-> TRUE, instructions |-> 0,
                             blocks |-> 0, errors |-> <<>>,
                             panicked |-> FALSE], body)
    IN IF gen.active_block THEN close_bb(gen) ELSE gen

\* The programs of up to MaxStmts statements: returns of no or one literal
\* and assignments of a literal to a local, a global, an upvalue and a
\* literal.
MaxStmts == 2
Statements ==
    {[kind |-> "ReturnStmt", values |-> n] : n \in 0..1}
    \cup {[kind |-> "ExprStatement", lhs |-> l] :
             l \in {"Local", "Global", "UpVal", "Literal"}}
AstCases == UNION {[1..n -> Statements] : n \in 0..MaxStmts}

\* The number of statements of body that generate_module should answer with
\* an error: an assignment to a literal, and a return after a return.
ExpectedErrors(body) ==
    Cardinality({i \in 1..Len(body) :
        \/ body[i].kind = "ExprStatement" /\ body[i].lhs = "Literal"
        \/ /\ body[i].kind = "ReturnStmt"
           /\ \E j \in 1..(i - 1) : body[j].kind = "ReturnStmt"})

AstCasesGenerated ==
    \A body \in AstCases :
        LET gen == generate_module(body)
        IN /\ ~gen.panicked
           /\ ~gen.active_block
           /\ Len(gen.errors) >= ExpectedErrors(body)

\* C28: IR generation never aborts.  For every program generate returns,
\* with the block of _start closed and an error in the list for every
\* return met in a closed block and every assignment to a target that
\* cannot be lowered; the loaded module is the result of such a run, every
\* function with its blocks.
C28_GenerationNeverAborts ==
    /\ \A k \in 1..Len(IRModule(module)) :
           Len(IRModule(module)[k].basic_blocks) >= 1
    /\ AstCasesGenerated

\* The bytecode emit has pushed after the first k items (instructions and
\* terminators, in order) of a function.
BytecodeThrough(func, reg_map, k) ==
    AndThen(ScanOrder(func.basic_blocks),
            LAMBDA items :
                EmitBlocks([bytecode |-> <<>>, constants |-> <<>>,
                            var_literals |-> <<>>],
                           items, reg_map, 1, k).bytecode)

\* Every instruction of func other than a Drop adds an opcode, and a
\* LoadUpVal adds a GetUpVal.
NothingDropped(func, reg_map) ==
    LET items == ScanOrder(func.basic_blocks)
    IN \A k \in 1..Len(items) :
           ("op" \in DOMAIN items[k] /\ items[k].op # "Drop")
               => LET before == BytecodeThrough(func, reg_map, k - 1)
                      after == BytecodeThrough(func, reg_map, k)
                  IN /\ Len(after) > Len(before)
                     /\ items[k].op = "LoadUpVal"
                            => after[Len(before) + 1].op = "GetUpVal"
NothingDroppedIn ==
    [p \in Programs \cup DeepPrograms |->
        \A i \in 1..Len(Scans[p]) :
            NothingDropped(Scans[p][i].func, Scans[p][i].alloc.reg_map)]

\* C29: the emitter drops no IR.  Every instruction of the loaded module
\* other than a Drop is lowered to at least one opcode, a LoadUpVal to a
\* GetUpVal.
C29_NothingDropped == NothingDroppedIn[module]

\* Functions with two locals that call with up to MaxArgs arguments: before
\* the call, temps temporaries are loaded, those of dropped are dropped;
\* then the callee and the arguments are loaded; after the call the
\* function returns ret, one of the temporaries or nothing.
MaxArgs == 3
TempsBeforeCall == 2
CallCases ==
    UNION {
        {AndThen(IRFunction("f",
                     <<IRBasicBlock(0,
                           [i \in 1..temps |-> IRLoadLocal(i - 1, Slot(0))]
                           \o SelectSeq([i \in 1..temps |-> IRDrop(Reg(i - 1))],
                                        LAMBDA d : d.src.id \in dropped)
                           \o <<IRLoadLocal(temps, Slot(1))>>
                           \o [a \in 1..argc |->
                                  IRLoadLocal(temps + a, Slot(0))]
                           \o <<IRCall(temps + argc + 1, Reg(temps),
                                       [a \in 1..argc |-> Reg(temps + a)]),
                                IRDrop(Reg(temps + argc + 1))>>,
                           IRReturn(<<ret>>))>>,
                     {0, 1}, <<>>, <<>>),
                 LAMBDA func :
                     AndThen(scan_lifetimes(func),
                         LAMBDA l : [func |-> func, lifetimes |-> l,
                                     alloc |-> allocate_registers(func, l)]))
         : dropped \in SUBSET (0..(temps - 1)),
           argc \in 0..MaxArgs,
           ret \in {Unit} \cup {Reg(j) : j \in 0..(temps - 1)}}
        : temps \in 0..TempsBeforeCall}

\* The variables whose value a write at position k of the scan order can
\* destroy: the locals, and the temporaries whose lifetime holds k.
LiveAt(scan, k) ==
    {v \in DOMAIN scan.alloc.reg_map :
        \/ v.kind = "Slot"
        \/ /\ v.kind = "Reg"
           /\ scan.lifetimes[v].start <= k /\ k <= scan.lifetimes[v].end}

\* No Call of at most 3 arguments marshals an argument into the register of
\* a local or of a temporary live at the call.
StrideSafe(scan) ==
    LET items == ScanOrder(scan.func.basic_blocks)
    IN \A k \in 1..Len(items) :
           ("op" \in DOMAIN items[k] /\ items[k].op = "Call"
                /\ Len(items[k].args) <= 3)
               => \A i \in 0..(Len(items[k].args) - 1) :
                      \A v \in LiveAt(scan, k) :
                          scan.alloc.reg_map[v]
                              # get_reg_index(scan.alloc.reg_map,
                                              items[k].callee) + 1 + i
CallCasesStrideSafe == \A scan \in CallCases : StrideSafe(scan)

\* C30: stride safety for small calls.  In every function of the loaded
\* module and of CallCases, for every Call with at most 3 arguments, none
\* of the registers callee + 1 + i (i < argc) that the marshalling Moves
\* write is the register of a local or of a temporary live at the call.
C30_StrideSafe ==
    /\ \A i \in 1..Len(Scans[module]) : StrideSafe(Scans[module][i])
    /\ CallCasesStrideSafe

\* A call of CallCases with 3 arguments whose callee took a freed register
\* below that of a temporary that lives across the call.
CallCaseReusesBelowLive ==
    \E scan \in CallCases :
        LET items == ScanOrder(scan.func.basic_blocks)
        IN \E k \in 1..Len(items) :
               /\ "op" \in DOMAIN items[k] /\ items[k].op = "Call"
               /\ Len(items[k].args) = 3
               /\ \E v \in LiveAt(scan, k) :
                      /\ v.kind = "Reg" /\ scan.lifetimes[v].end > k
                      /\ scan.alloc.reg_map[v]
                             = scan.alloc.reg_map[items[k].callee] + stride

\* C30 witness: the VM is at a Call with an argument, just marshalled by
\* the Move before it into the register above the callee, in a function
\* with locals; and CallCases has a call with 3 arguments next to a live
\* temporary.
C30_CallMarshalled ==
    /\ run_state = "step" /\ call_stack # <<>>
    /\ CurrentFrame.pc >= 1 /\ CurrentFrame.pc < Len(Bytecode)
    /\ Instr.op = "Call" /\ Instr.argc >= 1
    /\ Bytecode[CurrentFrame.pc].op = "Move"
    /\ Bytecode[CurrentFrame.pc].dest = Instr.func_reg + Instr.argc
    /\ func_meta[CurrentFrame.func_name].num_locals >= 1
    /\ CallCaseReusesBelowLive

\* n is base times a power of two.
RECURSIVE PowerOfTwoTimes(_, _)
PowerOfTwoTimes(n, base) ==
    \/ n = base
    \/ n > base /\ n % 2 = 0 /\ PowerOfTwoTimes(n \div 2, base)

\* C31: GC scheduling.  The threshold starts at VM_THRESHOLD.  A turn that
\* executes an instruction frees no object and leaves the threshold alone;
\* the collection runs only in the rest of a turn whose instruction left
\* total_allocated over the threshold, doubles the threshold once, and
\* keeps exactly the objects the mark phase reached from the state the
\* instruction left.  The threshold never decreases and is VM_THRESHOLD
\* times a power of two.
C31_GCScheduling ==
    /\ heap.threshold = VM_THRESHOLD
    /\ [][/\ run_state # "gc"
                => /\ heap'.threshold = heap.threshold
                   /\ DOMAIN heap.objects \subseteq DOMAIN heap'.objects
          /\ run_state' = "gc" => check_gc_condition(heap')
          /\ (run_state # "gc" /\ run_state' \in {"step", "exited"})
                => ~check_gc_condition(heap')
          /\ (run_state = "gc" /\ run_state' # "ub")
                => /\ check_gc_condition(heap)
                   /\ heap'.threshold = 2 * heap.threshold
                   /\ DOMAIN heap'.objects = mark_objects(VM)
                   /\ run_state' # "gc"
          /\ heap'.threshold >= heap.threshold
          /\ PowerOfTwoTimes(heap'.threshold, VM_THRESHOLD)]_vars

\* C31 witness: the second collection of a run has finished, the
\* threshold is four times the initial one, and the run goes on.
C31_CollectedTwice ==
    /\ run_state = "step"
    /\ heap.threshold = 4 * VM_THRESHOLD

\* The objects that refer to the address ptr.
Referrers(objects, ptr) ==
    {q \in DOMAIN objects : ptr \in Children(objects, q)}

\* C32: marking through closures.  In a collection, every upvalue object
\* captured by a marked Function object is marked, the object a marked
\* Closed upvalue owns is marked, and all of them are in the heap after the
\* sweep, as they were.
C32_MarkedThroughClosures ==
    [][(run_state = "gc" /\ run_state' # "ub")
          => LET marked == mark_objects(VM)
             IN \A ptr \in marked :
                    /\ heap.objects[ptr].kind = "Function"
                           => \A i \in 1..Len(heap.objects[ptr].data.upvalues) :
                                  LET upval == heap.objects[ptr].data.upvalues[i]
                                  IN upval # 0
                                         => /\ upval \in marked
                                            /\ upval \in DOMAIN heap'.objects
                    /\ (/\ heap.objects[ptr].kind = "UpValue"
                        /\ heap.objects[ptr].data.state = "Closed")
                           => ValueRefs(heap.objects[ptr].data.value)
                                  \subseteq marked
                    /\ ptr \in DOMAIN heap'.objects
                    /\ heap'.objects[ptr] = heap.objects[ptr]]_vars

\* C32 witness: a collection has run, and the heap holds a table that only
\* a Closed upvalue refers to, and only a closure refers to that upvalue; no
\* root holds the table or the upvalue.
C32_KeptThroughClosedUpvalue ==
    /\ run_state = "step"
    /\ heap.threshold > 2 * VM_THRESHOLD
    /\ \E t, u, f \in DOMAIN heap.objects :
           /\ heap.objects[t].kind = "Table"
           /\ heap.objects[u].kind = "UpValue"
           /\ heap.objects[u].data = Closed(Table(t))
           /\ heap.objects[f].kind = "Function"
           /\ Referrers(heap.objects, t) = {u}
           /\ Referrers(heap.objects, u) = {f}
           /\ {t, u} \cap (GlobalRefs(VM) \cup StackRefs(VM)
                           \cup ConstantRefs(VM) \cup FrameUpvalueRefs(VM))
                  = {}

\* The heap refuses the string that the Concat at the head of the turn makes.
ConcatRefused ==
    /\ Fetch({"Concat"})
    /\ RegsInBounds(VM, {Instr.left, Instr.right})
    /\ get_reg(VM, Instr.left).t \in {"String", "Number"}
    /\ get_reg(VM, Instr.right).t \in {"String", "Number"}
    /\ alloc_string(heap,
           StrConcat(value_to_string(VM, get_reg(VM, Instr.left)),
                     value_to_string(VM, get_reg(VM, Instr.right)))).ptr = 0

\* The heap refuses the table that the NewTable at the head of the turn makes.
NewTableRefused ==
    /\ Fetch({"NewTable"})
    /\ alloc_table(heap).ptr = 0

\* The captures of the FnProto at the head of the turn: the accumulator of
\* the map over the upvalue descriptors of the instantiated function.
FnProtoCaptures ==
    CaptureUpvalues([heap |-> heap, captured |-> <<>>,
                     out_upvalues |-> <<>>, refused |-> FALSE],
                    CurrentFrame,
                    func_meta[func_meta[CurrentFrame.func_name]
                                  .child_protos[Instr.proto_idx + 1]]
                        .upvalues_metadata, 1)

\* The heap refuses an upvalue object that the FnProto at the head of the
\* turn makes.
UpvalueRefused ==
    /\ Fetch({"FnProto"})
    /\ Instr.proto_idx < Len(func_meta[CurrentFrame.func_name].child_protos)
    /\ FnProtoCaptures.refused

\* The heap takes the upvalue objects and refuses the function object that
\* the FnProto at the head of the turn makes.
FunctionRefused ==
    /\ Fetch({"FnProto"})
    /\ Instr.proto_idx < Len(func_meta[CurrentFrame.func_name].child_protos)
    /\ ~FnProtoCaptures.refused
    /\ LET sub_func_name == func_meta[CurrentFrame.func_name]
                                .child_protos[Instr.proto_idx + 1]
           sub_meta == func_meta[sub_func_name]
       IN alloc_function(FnProtoCaptures.heap,
                         [name |-> sub_func_name,
                          constants |-> sub_meta.constants,
                          upvalues |-> FnProtoCaptures.captured],
                         Len(sub_meta.bytecode),
                         Len(sub_meta.constants)).ptr = 0

\* C33: a refused allocation is a runtime error.  A turn on a Concat, a
\* NewTable or a FnProto whose allocation (the string, the table, an upvalue
\* object or the function object) the heap refuses ends in the error path:
\* an OutOfMemory error is reported, no register is written, the call stack
\* is cleared and the process does not abort.
C33_RefusalIsOutOfMemory ==
    [][(ConcatRefused \/ NewTableRefused \/ UpvalueRefused \/ FunctionRefused)
          => /\ run_state' = "error"
             /\ Len(reported') = 1
             /\ reported'[1].kind = "OutOfMemory"
             /\ value_stack' = value_stack
             /\ call_stack' = <<>>]_vars

C35_OutUpvaluesAllocated ==
    \A f \in 1..Len(call_stack) :
        \A i \in 1..Len(call_stack[f].out_upvalues) :
            call_stack[f].out_upvalues[i][2] \in DOMAIN heap.objects

\* The registers an opcode names: its register operands, and for a Return
\* the registers of its results.
RegisterFields(op) ==
    IF op = "LoadBool" THEN {"dest"}
    ELSE {"dest", "src", "left", "right", "table", "key", "value", "reg",
          "func_reg"}
OpRegisters(instr) ==
    {instr[fld] : fld \in RegisterFields(instr.op) \cap DOMAIN instr}
        \cup (IF instr.op = "Return"
              THEN {instr.start + i : i \in 0..(instr.count - 1)} ELSE {})

\* C36: register accesses stay inside the frame window.  In the bytecode of
\* every function of the loaded module every register index, the targets
\* func_reg + 1 + i of the argument Moves included, is below the function's
\* max_stack_size, the reg_count of its frames.
C36_RegistersInWindow ==
    \A f \in DOMAIN func_meta :
        \A k \in 1..Len(func_meta[f].bytecode) :
            \A r \in OpRegisters(func_meta[f].bytecode[k]) :
                r < func_meta[f].max_stack_size

\* C37: shared-stack length invariant.  Whenever the call stack is not
\* empty, the value stack covers the window of every frame and ends at
\* base_offset + reg_count of the top frame (the emitted bytecode has no
\* Push), whatever script calls, native calls and returns came before.
C37_StackCoversFrames ==
    call_stack # <<>> =>
        /\ Len(value_stack)
               = CurrentFrame.base_offset + CurrentFrame.reg_count
        /\ \A i \in 1..Len(call_stack) :
               call_stack[i].base_offset + call_stack[i].reg_count
                   <= Len(value_stack)

\* _start is running again after a script call in which a native call
\* returned.
C37_BackFromCalls ==
    /\ module = "Native"
    /\ run_state = "step"
    /\ Len(call_stack) = 1
    /\ output # <<>>
    /\ CurrentFrame.pc < Len(Bytecode) /\ Instr.op = "Call"

\* The opcodes with an arm in execute_instruction.
HandledOpcodes ==
    {"Move", "LoadK", "LoadNil", "LoadBool", "GetGlobal", "SetGlobal",
     "GetUpVal", "SetUpVal", "Add", "Sub", "Mul", "Div", "Mod", "UnOp",
     "Concat", "And", "Or", "NewTable", "GetTable", "SetTable", "FnProto",
     "Eq", "Ne", "Lt", "Gt", "Le", "Ge", "Test", "Jump", "Call", "Push",
     "Return", "Halt"}

\* C38: every emitted opcode has a handler.  The instruction the loop is
\* about to execute, and every instruction of the emitted bytecode of the
\* loaded module, has an opcode with an arm in execute_instruction, so the
\* arm "Unsupported opcode" is never taken.
C38_EmittedOpcodesHandled ==
    /\ (run_state = "step" /\ CurrentFrame.pc < Len(Bytecode))
           => Instr.op \in HandledOpcodes
    /\ \A f \in DOMAIN func_meta :
           \A k \in 1..Len(func_meta[f].bytecode) :
               func_meta[f].bytecode[k].op \in HandledOpcodes

\* The addresses of the marked objects.
MarkedNow == {ptr \in DOMAIN heap.objects : heap.objects[ptr].mark}

\* C39: the mark phase terminates on every heap graph, cyclic ones
\* included.  Every mark phase ends; in each of its steps no mark is
\* cleared, at most one object is marked, and addresses are added to the
\* pending visits only by the step that newly marks an object (its
\* children); at the end the marked objects are those reachable from the
\* roots.
C39_MarkTerminates ==
    /\ <>(run_state = "marked")
    /\ [][/\ MarkedNow \subseteq MarkedNow'
          /\ Cardinality(MarkedNow' \ MarkedNow) <= 1
          /\ mark_pending' # mark_pending => mark_pending # <<>>
          /\ (mark_pending' # mark_pending
                  /\ mark_pending' # Tail(mark_pending))
                 => MarkedNow' \ MarkedNow = {Head(mark_pending)}]_vars
    /\ [](run_state = "marked" => MarkedNow = mark_objects(VM))

\* The mark phase has ended on the heap of the closure stored in the table
\* it captures, with the table, the upvalue and the closure marked.
C39_CycleMarked ==
    /\ run_state = "marked"
    /\ heap.objects[3].kind = "Function"
    /\ 3 \in Children(heap.objects, 1)
    /\ MarkedNow = {1, 2, 3}

\* The String values held in the registers, the globals, the tables and the
\* constant pools (of the loaded functions and of the function objects).
HeldStrings ==
    LET held(vals) == {vals[i].ptr :
                          i \in {j \in 1..Len(vals) : vals[j].t = "String"}}
        in_table(data) ==
            {k.ptr : k \in {key \in DOMAIN data : key.t = "String"}}
                \cup {data[k].ptr :
                         k \in {key \in DOMAIN data : data[key].t = "String"}}
    IN held(value_stack)
           \cup {globals[n].ptr :
                    n \in {m \in DOMAIN globals : globals[m].t = "String"}}
           \cup UNION {held(func_meta[f].constants) : f \in DOMAIN func_meta}
           \cup UNION {IF heap.objects[ptr].kind = "Table"
                       THEN in_table(heap.objects[ptr].data)
                       ELSE IF heap.objects[ptr].kind = "Function"
                       THEN held(heap.objects[ptr].data.constants)
                       ELSE {} : ptr \in DOMAIN heap.objects}

\* C40: string identity is content equality.  Every String value held in a
\* register, a global, a table or a constant pool refers to an allocated
\* string object; two of them are the same reference exactly when their
\* texts are equal; and an Eq or a Ne on two String registers gives the
\* comparison of their texts.
C40_IdentityIsContent ==
    /\ \A p \in HeldStrings :
           p \in DOMAIN heap.objects /\ heap.objects[p].kind = "String"
    /\ \A p, q \in HeldStrings :
           p = q <=> heap.objects[p].data = heap.objects[q].data
    /\ (/\ run_state = "step"
        /\ CurrentFrame.pc >= 1
        /\ CurrentFrame.pc <= Len(Bytecode)
        /\ Bytecode[CurrentFrame.pc].op \in {"Eq", "Ne"})
           => LET cmp == Bytecode[CurrentFrame.pc]
                  v1 == get_reg(VM, cmp.left)
                  v2 == get_reg(VM, cmp.right)
              IN (v1.t = "String" /\ v2.t = "String" /\ cmp.dest # cmp.left
                      /\ cmp.dest # cmp.right)
                     => get_reg(VM, cmp.dest)
                            = Boolean((cmp.op = "Eq")
                                          <=> (heap.objects[v1.ptr].data
                                                   = heap.objects[v2.ptr].data))

\* Two registers hold the text xy, made by two concatenations with a
\* collection between them, and an Eq has just found them equal.
C40_EqualAfterCollection ==
    /\ module = "Same"
    /\ run_state = "step"
    /\ heap.threshold > 2 * VM_THRESHOLD
    /\ CurrentFrame.pc >= 1
    /\ Bytecode[CurrentFrame.pc].op = "Eq"
    /\ get_reg(VM, Bytecode[CurrentFrame.pc].dest) = Boolean(TRUE)
    /\ heap.objects[get_reg(VM, Bytecode[CurrentFrame.pc].left).ptr].data
           = <<"xy">>

====
